---- MODULE Spec2Model ----
(***************************************************************************)
(* A model of the pw command-line control plane: the output envelope       *)
(* builder (crates/cli/src/output), the NDJSON batch dispatch              *)
(* (crates/cli/src/commands/run, crates/cli/src/commands/registry.rs),     *)
(* the context store (crates/cli/src/context_store) and the session        *)
(* manager (crates/cli/src/session).                                       *)
(*                                                                         *)
(* Each subsystem has its own specification over its own variables; the    *)
(* variables of the other subsystems stay at their initial values.         *)
(***************************************************************************)
EXTENDS Naturals, Sequences, FiniteSets

VARIABLES
    \* --- output envelope ---
    rb,          \* the ResultBuilder under construction, or None
    emitted,     \* the envelope produced by the last build / failure path, or None
    \* --- batch loop ---
    bpc,         \* position of the batch loop: "read", "dispatch", "write", "done"
    cur,         \* the input line being processed, or None
    resp,        \* the response computed for cur and not yet written, or None
    trace,       \* the steps run_command ran for cur
    nRead,       \* input lines read so far
    nRequests,   \* non-blank input lines read so far
    nWritten,    \* lines written to stdout so far
    doneBy,      \* why the loop ended: "eof" or "quit" (None while running)
    ctx_state,   \* the ContextState shared by the requests of the loop
    now,         \* the system clock (seconds)
    \* --- session manager ---
    mgr,         \* the SessionManager of the running CLI process, or None
    disk,        \* the session descriptor file of the profile, or None
    procs,       \* the pids of the processes alive on this host
    acq,         \* the request and outcome of this run's acquisition, or None
    invocations, \* CLI processes started so far
    browserState, \* the browser of this run's session: "none", "running", "closed"
    cmd,         \* the response of this run's last session.status/clear/stop, or None
    \* --- concurrent invocations on one descriptor file ---
    writers,     \* per concurrent invocation: its position, manager, request, session
    descriptorFile, \* the descriptor file the invocations share, or None
    lastWriter,  \* the invocation whose save finished last (0: none)
    \* --- context store across invocations ---
    cstate,      \* the ContextState of the running CLI process, or None
    globalDisk,  \* what the global contexts.json holds, or None
    projectDisk, \* what the project contexts.json holds, or None
    ctime,       \* the system clock (seconds)
    crun,        \* runs started, operations of this run, and what this run was started with
    clog,        \* the last context-store operation: name, argument, state before it
    wantCdp,     \* the endpoint of the last connect set/clear that took effect, as this run sees it
    savedCdp,    \* the endpoint of the last connect set/clear that reached the global file
    \* --- tabs switch / tabs close ---
    tabs,        \* the pages of the browser context
    tpats,       \* the protected patterns the command was given
    tcmd,        \* the running tabs command, or None
    tact,        \* what the last command brought to front or closed, or None
    tdone,       \* tabs commands that have returned
    \* --- a save of the context store and a concurrent load ---
    sdisk,       \* the global context-store file on disk
    swriter,     \* the save under way, or None
    sreader,     \* what the last concurrent load saw, or None
    ssaves,      \* saves that have returned
    \* --- connect: launch, discover, kill ---
    answers,     \* what the three hosts answer on the port now
    child,       \* the browser launch spawned: "none", "running" or its exit status
    launch,      \* the launch_chrome under way, or None
    kctx,        \* the ContextState of the invocation
    kop,         \* the last connect operation and its result
    kops,        \* connect operations that have returned
    \* --- JSON-RPC connection ---
    last_id,     \* Connection.last_id
    callbacks,   \* Connection.callbacks: request id -> the caller whose sender it holds
    oneshot,     \* per caller: the value sent on its oneshot channel, or None
    completions, \* per caller: how many times its sender was sent on
    calls,       \* per caller: its send_message call
    tlock,       \* who holds the transport mutex: "free", "caller", "reader"
    wire,        \* the requests written to the transport, by id
    pipe,        \* the messages the server wrote and the transport has not read
    rxq,         \* message_rx: messages read and not yet dispatched
    reader,      \* the transport task of run: "none", "spawned", "reading", "ended"
    mloop,       \* the message loop of run: "new", "running", "ended"
    pipeOpen,    \* the server has not closed the pipe
    \* --- two invocations with one request ---
    rfirst,      \* the first invocation: what its session() did (None: not yet)
    rsecond,     \* the later invocation: what its session() did (None: not yet)
    rdisk,       \* the descriptor file of the workspace and namespace
    rprocs,      \* the pids alive on the host
    rbrowser,    \* the browser of the first session: none, running, closed
    \* --- auth listen ---
    authenticated, \* ListenState.authenticated, shared by the handlers of all connections
    sockets,     \* per connection: open, the Hellos it sent, the last reply it got
    auth_dir,    \* per cookie file of the auth directory: the connection it was last written for, or None
    handled      \* extension messages handled

envVars == <<rb, emitted>>

batchVars == <<bpc, cur, resp, trace, nRead, nRequests, nWritten, doneBy, ctx_state, now>>

sessVars == <<mgr, disk, procs, acq, invocations, browserState, cmd>>

vars == <<rb, emitted, bpc, cur, resp, trace, nRead, nRequests, nWritten, doneBy, ctx_state, now,
          mgr, disk, procs, acq, invocations, browserState, cmd,
          writers, descriptorFile, lastWriter,
          cstate, globalDisk, projectDisk, ctime, crun, clog, wantCdp, savedCdp,
          tabs, tpats, tcmd, tact, tdone, sdisk, swriter, sreader, ssaves,
          answers, child, launch, kctx, kop, kops,
          last_id, callbacks, oneshot, completions, calls, tlock, wire, pipe, rxq, reader, mloop, pipeOpen,
          rfirst, rsecond, rdisk, rprocs, rbrowser,
          authenticated, sockets, auth_dir, handled>>

listenVars == <<authenticated, sockets, auth_dir, handled>>

reuseVars == <<rfirst, rsecond, rdisk, rprocs, rbrowser>>

rpcVars == <<last_id, callbacks, oneshot, completions, calls, tlock, wire, pipe, rxq, reader, mloop, pipeOpen>>

connVars == <<answers, child, launch, kctx, kop, kops>>

tabVars == <<tabs, tpats, tcmd, tact, tdone>>

saveVars == <<sdisk, swriter, sreader, ssaves>>

ctxVars == <<cstate, globalDisk, projectDisk, ctime, crun, clog, wantCdp, savedCdp>>

\* What a step of one subsystem leaves alone: the variables of the others.
raceVars == <<writers, descriptorFile, lastWriter>>

EnvFrame == UNCHANGED <<batchVars, sessVars, raceVars, ctxVars, tabVars, saveVars, connVars, rpcVars, reuseVars, listenVars>>

BatchFrame == UNCHANGED <<envVars, sessVars, raceVars, ctxVars, tabVars, saveVars, connVars, rpcVars, reuseVars, listenVars>>

SessFrame == UNCHANGED <<envVars, batchVars, raceVars, ctxVars, tabVars, saveVars, connVars, rpcVars, reuseVars, listenVars>>

RaceFrame == UNCHANGED <<envVars, batchVars, sessVars, ctxVars, tabVars, saveVars, connVars, rpcVars, reuseVars, listenVars>>

CtxFrame == UNCHANGED <<envVars, batchVars, sessVars, raceVars, tabVars, saveVars, connVars, rpcVars, reuseVars, listenVars>>

TabFrame == UNCHANGED <<envVars, batchVars, sessVars, raceVars, ctxVars, saveVars, connVars, rpcVars, reuseVars, listenVars>>

SaveFrame == UNCHANGED <<envVars, batchVars, sessVars, raceVars, ctxVars, tabVars, connVars, rpcVars, reuseVars, listenVars>>

ConnFrame == UNCHANGED <<envVars, batchVars, sessVars, raceVars, ctxVars, tabVars, saveVars, rpcVars, reuseVars, listenVars>>

RpcFrame == UNCHANGED <<envVars, batchVars, sessVars, raceVars, ctxVars, tabVars, saveVars, connVars, reuseVars, listenVars>>

ReuseFrame == UNCHANGED <<envVars, batchVars, sessVars, raceVars, ctxVars, tabVars, saveVars, connVars, rpcVars, listenVars>>

ListenFrame == UNCHANGED <<envVars, batchVars, sessVars, raceVars, ctxVars, tabVars, saveVars, connVars, rpcVars, reuseVars>>

\* Option<T>: None is the empty sequence, Some(x) the one-element sequence.
None == <<>>

Some(x) == <<x>>

IsSome(o) == o # None

IsNone(o) == o = None

Unwrap(o) == o[1]

(***************************************************************************)
(* Bounds of the model.                                                    *)
(***************************************************************************)
MaxArtifacts == 2
MaxDiagnostics == 1
MaxLines == 3
MaxClock == 1
MaxInvocations == 2
MaxWriters == 2
MaxRuns == 2
MaxOps == 2
MaxTabs == 2
MaxTabCommands == 1
MaxSaves == 2
MaxConnectOps == 1
MaxCallers == 2
MaxSockets == 2
MaxMessages == 3

\* launch_chrome: let max_attempts = 8; sleep(Duration::from_millis(200))
max_attempts == 8
PROBE_INTERVAL_MS == 200

(***************************************************************************)
(* Output envelope: crates/cli/src/output/model.rs                         *)
(***************************************************************************)
SCHEMA_VERSION == 4

ErrorCode ==
    { "BROWSER_LAUNCH_FAILED", "NAVIGATION_FAILED", "SELECTOR_NOT_FOUND",
      "SELECTOR_AMBIGUOUS", "TIMEOUT", "JS_EVAL_FAILED", "SCREENSHOT_FAILED",
      "IO_ERROR", "SESSION_ERROR", "INVALID_INPUT", "UNSUPPORTED_MODE",
      "AUTH_ERROR", "INTERNAL_ERROR" }

\* The codes the builder is driven with (a sample of ErrorCode).
BuilderCodes == { "TIMEOUT", "INVALID_INPUT", "UNSUPPORTED_MODE" }

ArtifactType == { "screenshot", "html" }

DiagnosticLevel == { "info", "warning" }

DataValues == { "d1", "d2" }

CommandError(code, details) == [code |-> code, details |-> details]

Diagnostic(level, source) == [level |-> level, source |-> source]

FailureWithArtifacts ==
    { [error |-> CommandError(c, d), artifacts |-> a] :
        c \in BuilderCodes, d \in {None, Some("details")},
        a \in {<<>>} \cup { <<t>> : t \in ArtifactType } }

(***************************************************************************)
(* ResultBuilder: crates/cli/src/output/result_builder.rs                  *)
(***************************************************************************)
ResultBuilderNew(command) ==
    [ schema_version |-> Some(SCHEMA_VERSION),
      command        |-> command,
      inputs         |-> None,
      data           |-> None,
      error          |-> None,
      artifacts      |-> <<>>,
      diagnostics    |-> <<>>,
      config         |-> None ]

BuilderNoSchemaVersion(b) == [b EXCEPT !.schema_version = None]

BuilderInputs(b, inputs) == [b EXCEPT !.inputs = Some(inputs)]

BuilderData(b, data) == [b EXCEPT !.data = Some(data)]

BuilderError(b, code) == [b EXCEPT !.error = Some(CommandError(code, None))]

BuilderErrorWithDetails(b, code, details) ==
    [b EXCEPT !.error = Some(CommandError(code, Some(details)))]

BuilderArtifact(b, artifact) == [b EXCEPT !.artifacts = Append(@, artifact)]

BuilderDiagnostic(b, level) ==
    [b EXCEPT !.diagnostics = Append(@, Diagnostic(level, None))]

BuilderDiagnosticWithSource(b, level, source) ==
    [b EXCEPT !.diagnostics = Append(@, Diagnostic(level, Some(source)))]

BuilderConfig(b, config) == [b EXCEPT !.config = Some(config)]

\* A build that forgets the data check: ok = error.is_none().
BuildOkErrorOnly(b) == IsNone(b.error)

\* let ok = self.error.is_none() && self.data.is_some();
BuildOk(b) == IsNone(b.error) /\ IsSome(b.data)

BuilderBuild(b) ==
    [ schema_version |-> b.schema_version,
      ok             |-> BuildOk(b),
      command        |-> b.command,
      inputs         |-> b.inputs,
      data           |-> b.data,
      error          |-> b.error,
      artifacts      |-> b.artifacts,
      diagnostics    |-> b.diagnostics,
      config         |-> b.config,
      via            |-> "build" ]

\* print_failure_with_artifacts: the envelope handed to print_result.
FailureEnvelope(command, failure) ==
    LET result == BuilderBuild(BuilderError(ResultBuilderNew(command), failure.error.code))
    IN  [ schema_version |-> result.schema_version,
          ok             |-> FALSE,
          command        |-> result.command,
          inputs         |-> result.inputs,
          data           |-> None,
          error          |-> Some(failure.error),
          artifacts      |-> failure.artifacts,
          diagnostics    |-> result.diagnostics,
          config         |-> result.config,
          via            |-> "failure" ]

\* emit_success: ResultBuilder::new(command).inputs(inputs).data(data).build()
EmitSuccessEnvelope(command, inputs, data) ==
    BuilderBuild(BuilderData(BuilderInputs(ResultBuilderNew(command), inputs), data))

(***************************************************************************)
(* Context store: crates/cli/src/context_store/mod.rs                      *)
(***************************************************************************)
SESSION_TIMEOUT_SECS == 3600

\* The context names of the model; "default" is the literal of the source.
ContextNames == {"default", "work"}

\* The project root of the model (a run has this one root or none).
ProjectRoot == "/proj"

\* StoredContext: the fields the context store reads or writes (project_root,
\* browser, headless and auth_file are carried along and never looked at).
StoredContext(scope, base_url, url, selector, output, cdp, used, protected) ==
    [ scope          |-> scope,
      base_url       |-> base_url,
      last_url       |-> url,
      last_selector  |-> selector,
      last_output    |-> output,
      cdp_endpoint   |-> cdp,
      last_used_at   |-> used,
      protected_urls |-> protected ]

\* StoredContext::default()
DefaultStoredContext == StoredContext("global", None, None, None, None, None, None, <<>>)

\* ActiveContexts { global, projects }; projects is the entry of ProjectRoot.
ActiveContexts(global, projects) == [global |-> global, projects |-> projects]

\* ContextStoreFile { schema, active, contexts }; contexts is a map from
\* names to stored contexts.
ContextStoreFile(active, contexts) == [active |-> active, contexts |-> contexts]

\* ContextStoreFile::default()
DefaultContextStoreFile == ContextStoreFile(ActiveContexts(None, None), <<>>)

\* HashMap operations on contexts.
ContainsKey(contexts, name) == name \in DOMAIN contexts

Insert(contexts, name, value) ==
    [n \in (DOMAIN contexts) \cup {name} |-> IF n = name THEN value ELSE contexts[n]]

\* ContextStore::get
StoreGet(file, name) ==
    IF ContainsKey(file.contexts, name) THEN Some(file.contexts[name]) ELSE None

\* ContextStore::ensure: the file after the call (the entry is file.contexts[name]).
StoreEnsure(file, scope, name) ==
    IF ContainsKey(file.contexts, name) THEN file
    ELSE [file EXCEPT !.contexts =
            Insert(@, name, [DefaultStoredContext EXCEPT !.scope = scope])]

\* What a context-store path holds: nothing, or bytes that are the whole
\* pretty JSON of a file, a proper prefix of it, or no bytes at all.
WholeFile(file) == Some([bytes |-> "whole", file |-> file])

PrefixOfFile(file) == Some([bytes |-> "prefix", file |-> file])

EmptyFile == Some([bytes |-> "empty"])

\* ContextStore::load: an unreadable or unparsable file is the default file.
StoreLoad(content) ==
    IF IsSome(content) /\ Unwrap(content).bytes = "whole"
    THEN Unwrap(content).file
    ELSE DefaultContextStoreFile

\* ContextBook { global, project }
ContextBook(global, project) == [global |-> global, project |-> project]

\* ContextBook::new
ContextBookNew(project_root, globalContent, projectContent) ==
    ContextBook(StoreLoad(globalContent),
                IF IsSome(project_root) THEN Some(StoreLoad(projectContent)) ELSE None)

SelectedContext(name, scope, data) == [name |-> name, scope |-> scope, data |-> data]

\* resolve_context_by_name: the stores and the selected context after the call.
ResolveContextByName(stores, name) ==
    IF IsSome(stores.project) /\ ContainsKey(Unwrap(stores.project).contexts, name)
    THEN [stores |-> stores,
          selected |-> SelectedContext(name, "project", Unwrap(stores.project).contexts[name])]
    ELSE IF ContainsKey(stores.global.contexts, name)
    THEN [stores |-> stores,
          selected |-> SelectedContext(name, "global", stores.global.contexts[name])]
    ELSE IF IsSome(stores.project)
    THEN LET f == StoreEnsure(Unwrap(stores.project), "project", name)
         IN  [stores |-> [stores EXCEPT !.project = Some(f)],
              selected |-> SelectedContext(name, "project", f.contexts[name])]
    ELSE LET f == StoreEnsure(stores.global, "global", name)
         IN  [stores |-> [stores EXCEPT !.global = f],
              selected |-> SelectedContext(name, "global", f.contexts[name])]

\* select_context
SelectContext(stores, project_root, requested) ==
    IF IsSome(requested) THEN ResolveContextByName(stores, Unwrap(requested))
    ELSE IF IsSome(project_root) /\ IsSome(stores.global.active.projects)
    THEN ResolveContextByName(stores, Unwrap(stores.global.active.projects))
    ELSE IF IsSome(stores.global.active.global)
    THEN ResolveContextByName(stores, Unwrap(stores.global.active.global))
    ELSE ResolveContextByName([stores EXCEPT !.global.active.global = Some("default")],
                              "default")

\* u64::saturating_sub
SaturatingSub(a, b) == IF a >= b THEN a - b ELSE 0

\* An is_session_stale for which the threshold itself is stale.
IsSessionStaleAtThreshold(selected, t) ==
    /\ IsSome(selected)
    /\ IsSome(Unwrap(selected).data.last_used_at)
    /\ SaturatingSub(t, Unwrap(Unwrap(selected).data.last_used_at)) >= SESSION_TIMEOUT_SECS

\* is_session_stale, with now_ts() = t
IsSessionStale(selected, t) ==
    /\ IsSome(selected)
    /\ IsSome(Unwrap(selected).data.last_used_at)
    /\ SaturatingSub(t, Unwrap(Unwrap(selected).data.last_used_at)) > SESSION_TIMEOUT_SECS

ContextState(stores, selected, project_root, base_url_override, no_context, no_save, refresh) ==
    [ stores            |-> stores,
      selected          |-> selected,
      project_root      |-> project_root,
      base_url_override |-> base_url_override,
      no_context        |-> no_context,
      no_save           |-> no_save,
      refresh           |-> refresh ]

\* ContextState::new over the two files on disk, with now_ts() = t
ContextStateNew(globalContent, projectContent, project_root, requested, base_url_override, no_context, no_save, refresh, t) ==
    LET book == ContextBookNew(project_root, globalContent, projectContent)
        sel  == SelectContext(book, project_root, requested)
        stores == IF no_context THEN book ELSE sel.stores
        selected0 == IF no_context THEN None ELSE Some(sel.selected)
        selected == IF IsSome(selected0) /\ IsSome(base_url_override)
                    THEN Some([Unwrap(selected0) EXCEPT !.data.base_url = base_url_override])
                    ELSE selected0
    IN  ContextState(stores, selected, project_root, base_url_override,
                     no_context, no_save, refresh \/ IsSessionStale(selected, t))

\* ContextState::refresh_requested
RefreshRequested(cs) == cs.refresh

\* ContextState::has_context_url
HasContextUrl(cs) ==
    IF cs.no_context THEN FALSE
    ELSE IF IsSome(cs.base_url_override) THEN TRUE
    ELSE /\ IsSome(cs.selected)
         /\ \/ ~cs.refresh /\ IsSome(Unwrap(cs.selected).data.last_url)
            \/ IsSome(Unwrap(cs.selected).data.base_url)

\* Result<String> of resolve_selector
SelectorOk(selector) == [ok |-> TRUE, value |-> selector]

SelectorErr(message) == [ok |-> FALSE, value |-> message]

\* ContextState::resolve_selector
ResolveSelector(cs, provided, fallback) ==
    IF IsSome(provided) THEN SelectorOk(Unwrap(provided))
    ELSE IF cs.no_context
    THEN IF IsSome(fallback) THEN SelectorOk(Unwrap(fallback))
         ELSE SelectorErr("Selector is required when context usage is disabled")
    ELSE IF IsNone(cs.selected)
    THEN IF IsSome(fallback) THEN SelectorOk(Unwrap(fallback))
         ELSE SelectorErr("No selector available")
    ELSE IF ~cs.refresh /\ IsSome(Unwrap(cs.selected).data.last_selector)
    THEN SelectorOk(Unwrap(Unwrap(cs.selected).data.last_selector))
    ELSE IF IsSome(fallback) THEN SelectorOk(Unwrap(fallback))
    ELSE SelectorErr("No selector available")

\* A cdp_endpoint that reads the store in no-context mode too.
CdpEndpointIgnoringNoContext(cs) ==
    IF ContainsKey(cs.stores.global.contexts, "default")
    THEN cs.stores.global.contexts["default"].cdp_endpoint
    ELSE None

\* ContextState::cdp_endpoint
CdpEndpoint(cs) ==
    IF cs.no_context THEN None
    ELSE IF ContainsKey(cs.stores.global.contexts, "default")
    THEN cs.stores.global.contexts["default"].cdp_endpoint
    ELSE None

\* ContextState::last_url
LastUrl(cs) ==
    IF cs.no_context THEN None
    ELSE IF IsNone(cs.selected) THEN None
    ELSE Unwrap(cs.selected).data.last_url

\* A set_cdp_endpoint that writes the endpoint into the selected context.
SetCdpEndpointIntoSelected(cs, endpoint) ==
    IF cs.no_save \/ cs.no_context THEN cs
    ELSE IF IsNone(cs.selected) THEN cs
    ELSE [cs EXCEPT !.selected = Some([Unwrap(cs.selected) EXCEPT
                                         !.data.cdp_endpoint = endpoint])]

\* execute_batch_command: the last_url the ExecCtx of every command is built with.
ExecCtxLastUrl(cs) == LastUrl(cs)

\* ContextState::set_cdp_endpoint
SetCdpEndpoint(cs, endpoint) ==
    IF cs.no_save \/ cs.no_context THEN cs
    ELSE LET g  == StoreEnsure(cs.stores.global, "global", "default")
             g2 == [g EXCEPT !.contexts["default"].cdp_endpoint = endpoint]
             s2 == [cs EXCEPT !.stores.global = g2]
         IN  IF /\ IsSome(cs.selected)
                /\ Unwrap(cs.selected).name = "default"
                /\ Unwrap(cs.selected).scope = "global"
             THEN [s2 EXCEPT !.selected = Some([Unwrap(cs.selected) EXCEPT
                                                  !.data.cdp_endpoint = endpoint])]
             ELSE s2

\* ContextState::protected_urls
ProtectedUrls(cs) ==
    IF cs.no_context THEN <<>>
    ELSE IF IsNone(cs.selected) THEN <<>>
    ELSE Unwrap(cs.selected).data.protected_urls

\* Strings that are matched are sequences of characters.
Chars == {"a", "A", "b", "B"}

\* char::to_lowercase
LowerChar(c) == IF c = "A" THEN "a" ELSE IF c = "B" THEN "b" ELSE c

\* str::to_lowercase
ToLowercase(s) == [i \in 1..Len(s) |-> LowerChar(s[i])]

\* str::contains
Contains(s, p) == \E i \in 0..Len(s) : i + Len(p) <= Len(s) /\ SubSeq(s, i + 1, i + Len(p)) = p

\* is_protected(url, protected_patterns) of commands/tabs.rs, the body of
\* ContextState::is_protected
IsProtectedBy(url, patterns) ==
    \E k \in 1..Len(patterns) : Contains(ToLowercase(url), ToLowercase(patterns[k]))

\* ContextState::is_protected
IsProtected(cs, url) == IsProtectedBy(url, ProtectedUrls(cs))

\* Vec::retain
RECURSIVE Retain(_, _)
Retain(list, lower) ==
    IF list = <<>> THEN <<>>
    ELSE IF ToLowercase(Head(list)) # lower
         THEN <<Head(list)>> \o Retain(Tail(list), lower)
         ELSE Retain(Tail(list), lower)

\* The state after a call that returns a bool, and the bool.
Changed(cs, flag) == [cs |-> cs, returned |-> flag]

\* An add_protected that compares the patterns as they are written.
AddProtectedCaseSensitive(cs, pattern) ==
    IF cs.no_save \/ cs.no_context THEN Changed(cs, FALSE)
    ELSE IF IsNone(cs.selected) THEN Changed(cs, FALSE)
    ELSE LET list == Unwrap(cs.selected).data.protected_urls
         IN  IF \E k \in 1..Len(list) : list[k] = pattern
             THEN Changed(cs, FALSE)
             ELSE Changed([cs EXCEPT !.selected = Some([Unwrap(cs.selected) EXCEPT
                              !.data.protected_urls = Append(list, pattern)])], TRUE)

\* ContextState::add_protected
AddProtected(cs, pattern) ==
    IF cs.no_save \/ cs.no_context THEN Changed(cs, FALSE)
    ELSE IF IsNone(cs.selected) THEN Changed(cs, FALSE)
    ELSE LET list == Unwrap(cs.selected).data.protected_urls
         IN  IF \E k \in 1..Len(list) : ToLowercase(list[k]) = ToLowercase(pattern)
             THEN Changed(cs, FALSE)
             ELSE Changed([cs EXCEPT !.selected = Some([Unwrap(cs.selected) EXCEPT
                              !.data.protected_urls = Append(list, pattern)])], TRUE)

\* ContextState::remove_protected
RemoveProtected(cs, pattern) ==
    IF cs.no_save \/ cs.no_context THEN Changed(cs, FALSE)
    ELSE IF IsNone(cs.selected) THEN Changed(cs, FALSE)
    ELSE LET list == Unwrap(cs.selected).data.protected_urls
             kept == Retain(list, ToLowercase(pattern))
         IN  Changed([cs EXCEPT !.selected = Some([Unwrap(cs.selected) EXCEPT
                          !.data.protected_urls = kept])],
                     Len(kept) < Len(list))

\* CommandContext::screenshot_path
ScreenshotPath(path) == [screenshot_path |-> path]

\* ContextState::resolve_output
ResolveOutput(cs, provided) ==
    IF IsSome(provided) THEN ScreenshotPath(Unwrap(provided))
    ELSE IF /\ ~cs.no_context
            /\ ~cs.refresh
            /\ IsSome(cs.selected)
            /\ IsSome(Unwrap(cs.selected).data.last_output)
    THEN ScreenshotPath(Unwrap(Unwrap(cs.selected).data.last_output))
    ELSE ScreenshotPath("screenshot.png")

\* ContextDelta { url, selector, output }
ContextDelta(url, selector, output) ==
    [url |-> url, selector |-> selector, output |-> output]

Deltas ==
    { ContextDelta(u, s, o) :
        u \in {None, Some("https://u1")},
        s \in {None, Some("#s1")},
        o \in {None, Some("o1.png")} }

\* An apply_delta that forgets the no_save / no_context guard.
ApplyDeltaUnguarded(cs, delta, t) ==
    IF IsNone(cs.selected) THEN cs
    ELSE LET sel == Unwrap(cs.selected)
             d   == sel.data
             d2  == [d EXCEPT
                      !.last_url      = IF IsSome(delta.url) THEN delta.url ELSE @,
                      !.last_selector = IF IsSome(delta.selector) THEN delta.selector ELSE @,
                      !.last_output   = IF IsSome(delta.output) THEN delta.output ELSE @,
                      !.last_used_at  = Some(t) ]
         IN  [cs EXCEPT !.selected = Some([sel EXCEPT !.data = d2])]

\* An apply_delta that keeps the URL it replaces as the cached output.
ApplyDeltaKeepingPrevious(cs, delta, t) ==
    IF cs.no_save \/ cs.no_context THEN cs
    ELSE IF IsNone(cs.selected) THEN cs
    ELSE LET sel == Unwrap(cs.selected)
             d   == sel.data
             d2  == [d EXCEPT
                      !.last_url      = IF IsSome(delta.url) THEN delta.url ELSE @,
                      !.last_selector = IF IsSome(delta.selector) THEN delta.selector ELSE @,
                      !.last_output   = IF IsSome(delta.url) THEN d.last_url ELSE @,
                      !.last_used_at  = Some(t) ]
         IN  [cs EXCEPT !.selected = Some([sel EXCEPT !.data = d2])]

\* ContextState::apply_delta, with now_ts() = t
ApplyDelta(cs, delta, t) ==
    IF cs.no_save \/ cs.no_context THEN cs
    ELSE IF IsNone(cs.selected) THEN cs
    ELSE LET sel == Unwrap(cs.selected)
             d   == sel.data
             d2  == [d EXCEPT
                      !.last_url      = IF IsSome(delta.url) THEN delta.url ELSE @,
                      !.last_selector = IF IsSome(delta.selector) THEN delta.selector ELSE @,
                      !.last_output   = IF IsSome(delta.output) THEN delta.output ELSE @,
                      !.last_used_at  = Some(t) ]
         IN  [cs EXCEPT !.selected = Some([sel EXCEPT !.data = d2])]

\* The state and the two files after persist, and whether it returned Ok.
Persisted(cs, globalContent, projectContent, saved, ok) ==
    [cs |-> cs, global |-> globalContent, project |-> projectContent,
     saved |-> saved, ok |-> ok]

\* The stores of persist before the files are saved.
PersistStores(cs) ==
    LET sel == Unwrap(cs.selected)
    IN  IF sel.scope = "project"
        THEN LET p == IF IsSome(cs.stores.project)
                      THEN Some([StoreEnsure(Unwrap(cs.stores.project), "project", sel.name)
                                   EXCEPT !.contexts[sel.name] = sel.data])
                      ELSE None
                 g == IF IsSome(cs.project_root)
                      THEN [cs.stores.global EXCEPT !.active.projects = Some(sel.name)]
                      ELSE cs.stores.global
             IN  ContextBook(g, p)
        ELSE LET g == [StoreEnsure(cs.stores.global, "global", sel.name)
                         EXCEPT !.contexts[sel.name] = sel.data,
                                !.active.global = Some(sel.name)]
             IN  ContextBook(g, cs.stores.project)

\* A persist that saves while no_save is set.
PersistIgnoringNoSave(cs, globalContent, projectContent) ==
    IF cs.no_context THEN { Persisted(cs, globalContent, projectContent, 0, TRUE) }
    ELSE IF IsNone(cs.selected) THEN { Persisted(cs, globalContent, projectContent, 0, TRUE) }
    ELSE LET stores == PersistStores(cs)
             cs2 == [cs EXCEPT !.stores = stores]
         IN  { Persisted(cs2, WholeFile(stores.global),
                         IF IsSome(stores.project) THEN WholeFile(Unwrap(stores.project))
                         ELSE projectContent, 2, TRUE) }

\* A persist that writes the selected context over the global `default` entry.
PersistIntoDefault(cs, globalContent, projectContent) ==
    IF cs.no_save \/ cs.no_context THEN { Persisted(cs, globalContent, projectContent, 0, TRUE) }
    ELSE IF IsNone(cs.selected) THEN { Persisted(cs, globalContent, projectContent, 0, TRUE) }
    ELSE LET stores0 == PersistStores(cs)
             stores == [stores0 EXCEPT !.global =
                          [StoreEnsure(@, "global", "default")
                             EXCEPT !.contexts["default"] = Unwrap(cs.selected).data]]
             cs2 == [cs EXCEPT !.stores = stores]
         IN  { Persisted(cs2, WholeFile(stores.global),
                         IF IsSome(stores.project) THEN WholeFile(Unwrap(stores.project))
                         ELSE projectContent, 2, TRUE) }

\* ContextState::persist: the outcomes of the two saves, a failing save taken
\* to fail before it opens its file (create_dir_all or the serialisation); it
\* ends persist.  The steps of one save are in SaveOpen .. SaveWriteAll.
Persist(cs, globalContent, projectContent) ==
    IF cs.no_save \/ cs.no_context THEN { Persisted(cs, globalContent, projectContent, 0, TRUE) }
    ELSE IF IsNone(cs.selected) THEN { Persisted(cs, globalContent, projectContent, 0, TRUE) }
    ELSE LET stores == PersistStores(cs)
             cs2 == [cs EXCEPT !.stores = stores]
         IN  { Persisted(cs2, globalContent, projectContent, 0, FALSE) }
             \cup
             ( IF IsSome(stores.project)
               THEN { Persisted(cs2, WholeFile(stores.global), projectContent, 1, FALSE),
                      Persisted(cs2, WholeFile(stores.global),
                                WholeFile(Unwrap(stores.project)), 2, TRUE) }
               ELSE { Persisted(cs2, WholeFile(stores.global), projectContent, 1, TRUE) } )

\* The cached URL, selector, output path and last-used timestamp.
Cached(cs) == IF IsNone(cs.selected) THEN None ELSE Some(Unwrap(cs.selected).data)

\* The context-store file of a first run that cached url and timestamp.
SeedGlobalFile(url, used) ==
    ContextStoreFile(ActiveContexts(Some("default"), None),
        Insert(<<>>, "default",
               StoredContext("global", None, url, None, None, None, used, <<>>)))

\* The context states a batch run can start from (ContextState::new); rf is
\* --refresh, which leaves the state as a stale context does.
InitialContextStates ==
    { ContextStateNew(WholeFile(SeedGlobalFile(u, t)), None, None, None, None,
                      nc, ns, rf, 0) :
        nc \in BOOLEAN, ns \in BOOLEAN, rf \in BOOLEAN,
        u \in {None, Some("https://u0")}, t \in {None, Some(0)} }

(***************************************************************************)
(* Command catalog: crates/cli/src/commands/registry.rs                    *)
(*                                                                         *)
(* A sample of the table of command_registry!.  Navigate, HarShow and      *)
(* AuthLogin are rows of the table; Login and NoBatch exercise the         *)
(* `interactive:` and `batch:` parameters of the macro, which no row of    *)
(* the table sets.                                                         *)
(***************************************************************************)
CatalogEntry(id, names, name, interactive, const, batch) ==
    [ id |-> id, names |-> names, NAME |-> name,
      interactive |-> interactive, INTERACTIVE_ONLY |-> const, batch |-> batch ]

Catalog ==
    { CatalogEntry("Navigate",  {"navigate", "nav"},          "navigate",   FALSE, FALSE, TRUE),
      CatalogEntry("HarShow",   {"har.show", "har-show"},     "har.show",   FALSE, FALSE, TRUE),
      CatalogEntry("AuthLogin", {"auth.login", "auth-login"}, "auth.login", FALSE, TRUE,  TRUE),
      CatalogEntry("Login",     {"login"},                    "login",      TRUE,  FALSE, TRUE),
      CatalogEntry("NoBatch",   {"no-batch"},                 "no-batch",   FALSE, FALSE, FALSE) }

CommandId == { e.id : e \in Catalog }

Entry(id) == CHOOSE e \in Catalog : e.id = id

\* lookup_command: exact match against all names and aliases
LookupCommand(name) ==
    IF \E e \in Catalog : name \in e.names
    THEN Some((CHOOSE e \in Catalog : name \in e.names).id)
    ELSE None

\* command_name: the canonical name
CommandName(id) == Entry(id).NAME

InteractiveOnly(id) == Entry(id).interactive \/ Entry(id).INTERACTIVE_ONLY

BatchEnabled(id) == Entry(id).batch

\* What the stages of run_command do with a request's args:
\*   "good"             every stage succeeds
\*   "undeserializable" serde_json::from_value fails
\*   "mode_rejected"    validate_mode rejects the raw args in batch mode
\*   "unresolvable"     resolve fails
\*   "exec_fails"       execute fails
ArgKinds == {"good", "undeserializable", "mode_rejected", "unresolvable", "exec_fails"}

PwError(kind, message) == [kind |-> kind, message |-> message]

RunErr(e, steps) == [ok |-> FALSE, error |-> e, trace |-> steps, printed |-> 0]

RunOk(out, steps) == [ok |-> TRUE, outcome |-> out, trace |-> steps, printed |-> 0]

ErasedOutcome(name, delta) ==
    [command |-> name, inputs |-> "inputs", data |-> "data", delta |-> delta]

\* The stages of run_command after the mode gate.
RunStages(id, args, mode, delta) ==
    IF args = "undeserializable"
    THEN RunErr(PwError("Context", "INVALID_INPUT"), <<"deserialize">>)
    ELSE IF args = "mode_rejected" /\ mode = "Batch"
    THEN RunErr(PwError("UnsupportedMode", CommandName(id)),
                <<"deserialize", "validate_mode">>)
    ELSE IF args = "unresolvable"
    THEN RunErr(PwError("Context", "No selector available"),
                <<"deserialize", "validate_mode", "resolve">>)
    ELSE IF args = "exec_fails"
    THEN RunErr(PwError("Timeout", "timeout"),
                <<"deserialize", "validate_mode", "resolve", "execute">>)
    ELSE RunOk(ErasedOutcome(CommandName(id), delta),
               <<"deserialize", "validate_mode", "resolve", "execute">>)

\* A run_command that deserializes before it checks the mode gate.
RunCommandGateAfterDeserialize(id, args, mode, delta) ==
    IF args = "undeserializable"
    THEN RunErr(PwError("Context", "INVALID_INPUT"), <<"deserialize">>)
    ELSE IF mode = "Batch" /\ ~BatchEnabled(id)
    THEN RunErr(PwError("UnsupportedMode", CommandName(id)), <<"deserialize">>)
    ELSE IF mode = "Batch" /\ InteractiveOnly(id)
    THEN RunErr(PwError("UnsupportedMode", CommandName(id)), <<"deserialize">>)
    ELSE RunStages(id, args, mode, delta)

\* A run_command that also prints the envelope of a successful command
\* (emit_success) instead of only returning the outcome.
RunCommandPrinting(id, args, mode, delta) ==
    LET r == IF mode = "Batch" /\ (~BatchEnabled(id) \/ InteractiveOnly(id))
             THEN RunErr(PwError("UnsupportedMode", CommandName(id)), <<>>)
             ELSE RunStages(id, args, mode, delta)
    IN  IF r.ok THEN [r EXCEPT !.printed = 1] ELSE r

\* run_command(id, args, has_cdp, exec)
RunCommand(id, args, mode, delta) ==
    IF mode = "Batch" /\ ~BatchEnabled(id)
    THEN RunErr(PwError("UnsupportedMode", CommandName(id)), <<>>)
    ELSE IF mode = "Batch" /\ InteractiveOnly(id)
    THEN RunErr(PwError("UnsupportedMode", CommandName(id)), <<>>)
    ELSE RunStages(id, args, mode, delta)

\* PwError::to_command_error: the error code of the envelope
ToCommandErrorCode(e) ==
    IF e.kind = "UnsupportedMode" THEN "UNSUPPORTED_MODE"
    ELSE IF e.kind = "Timeout" THEN "TIMEOUT"
    ELSE IF e.kind = "Context" THEN "INVALID_INPUT"
    ELSE "INTERNAL_ERROR"

(***************************************************************************)
(* Batch dispatch: crates/cli/src/commands/run/dispatch.rs                 *)
(***************************************************************************)
BatchRequest(id, command, args) == [id |-> id, command |-> command, args |-> args]

BatchResponseSuccess(id, command, data, inputs) ==
    [ id |-> id, ok |-> TRUE, command |-> command, data |-> Some(data),
      error |-> None, inputs |-> Some(inputs) ]

BatchResponseError(id, command, code) ==
    [ id |-> id, ok |-> FALSE, command |-> command, data |-> None,
      error |-> Some(code), inputs |-> None ]

Dispatched(response, cs, steps, printed) ==
    [response |-> response, ctx_state |-> cs, trace |-> steps, printed |-> printed]

\* An execute_batch_command that applies the delta before it looks at the result.
ExecuteBatchCommandEagerDelta(request, cs, delta, t) ==
    LET looked == LookupCommand(request.command)
    IN  IF IsNone(looked)
        THEN Dispatched(BatchResponseError(request.id, request.command, "UNKNOWN_COMMAND"),
                        cs, <<>>, 0)
        ELSE LET cmd_id == Unwrap(looked)
                 r == RunCommand(cmd_id, request.args, "Batch", delta)
             IN  IF r.ok
                 THEN Dispatched(BatchResponseSuccess(request.id, r.outcome.command,
                                                      r.outcome.data, r.outcome.inputs),
                                 ApplyDelta(cs, r.outcome.delta, t), r.trace, r.printed)
                 ELSE Dispatched(BatchResponseError(request.id, CommandName(cmd_id),
                                                    ToCommandErrorCode(r.error)),
                                 ApplyDelta(cs, delta, t), r.trace, r.printed)

\* An execute_batch_command that reports a failure as a success without data.
ExecuteBatchCommandErrAsOk(request, cs, delta, t) ==
    LET looked == LookupCommand(request.command)
    IN  IF IsNone(looked)
        THEN Dispatched(BatchResponseError(request.id, request.command, "UNKNOWN_COMMAND"),
                        cs, <<>>, 0)
        ELSE LET cmd_id == Unwrap(looked)
                 r == RunCommand(cmd_id, request.args, "Batch", delta)
             IN  IF r.ok
                 THEN Dispatched(BatchResponseSuccess(request.id, r.outcome.command,
                                                      r.outcome.data, r.outcome.inputs),
                                 ApplyDelta(cs, r.outcome.delta, t), r.trace, r.printed)
                 ELSE Dispatched(BatchResponseSuccess(request.id, CommandName(cmd_id),
                                                      "data", "inputs"),
                                 cs, r.trace, r.printed)

\* execute_batch_command(request, ctx, ctx_state, broker, format, schema_version);
\* delta is what execute returns when it succeeds, t is now_ts().
ExecuteBatchCommand(request, cs, delta, t) ==
    LET looked == LookupCommand(request.command)
    IN  IF IsNone(looked)
        THEN Dispatched(BatchResponseError(request.id, request.command, "UNKNOWN_COMMAND"),
                        cs, <<>>, 0)
        ELSE LET cmd_id == Unwrap(looked)
                 r == RunCommand(cmd_id, request.args, "Batch", delta)
             IN  IF r.ok
                 THEN Dispatched(BatchResponseSuccess(request.id, r.outcome.command,
                                                      r.outcome.data, r.outcome.inputs),
                                 ApplyDelta(cs, r.outcome.delta, t), r.trace, r.printed)
                 ELSE Dispatched(BatchResponseError(request.id, CommandName(cmd_id),
                                                    ToCommandErrorCode(r.error)),
                                 cs, r.trace, r.printed)

(***************************************************************************)
(* Batch loop (section 4.9 of the specification).                          *)
(***************************************************************************)
CommandNames == UNION { e.names : e \in Catalog } \cup {"bogus"}

BlankLine == [kind |-> "blank"]

MalformedLine(recoverable) == [kind |-> "malformed", recoverable |-> recoverable]

RequestLine(command, args) == [kind |-> "request", command |-> command, args |-> args]

InputLines ==
    {BlankLine}
    \cup { MalformedLine(r) : r \in BOOLEAN }
    \cup { RequestLine(c, a) : c \in CommandNames, a \in ArgKinds }
    \cup { RequestLine("quit", "good") }

IsQuit(line) == line.kind = "request" /\ line.command = "quit"

\* The request id of the n-th input line.
RequestId(n) == Some(n)

\* A loop that reads the next line while a response is still unwritten.
ReadLineEarly ==
    /\ bpc \in {"read", "write"}
    /\ nRead < MaxLines
    /\ \E line \in InputLines :
         /\ nRead' = nRead + 1
         /\ IF line.kind = "blank"
            THEN UNCHANGED <<bpc, cur, nRequests>>
            ELSE /\ bpc' = "dispatch"
                 /\ cur' = Some(line)
                 /\ nRequests' = nRequests + 1
    /\ UNCHANGED <<resp, trace, nWritten, doneBy, ctx_state, now>>
    /\ BatchFrame

\* Read the next line of stdin; a whitespace-only line is skipped.
ReadLine ==
    /\ bpc = "read"
    /\ nRead < MaxLines
    /\ \E line \in InputLines :
         /\ nRead' = nRead + 1
         /\ IF line.kind = "blank"
            THEN UNCHANGED <<bpc, cur, nRequests>>
            ELSE /\ bpc' = "dispatch"
                 /\ cur' = Some(line)
                 /\ nRequests' = nRequests + 1
    /\ UNCHANGED <<resp, trace, nWritten, doneBy, ctx_state, now>>
    /\ BatchFrame

\* stdin reached EOF.
ReadEof ==
    /\ bpc = "read"
    /\ bpc' = "done"
    /\ doneBy' = Some("eof")
    /\ UNCHANGED <<cur, resp, trace, nRead, nRequests, nWritten, ctx_state, now>>
    /\ BatchFrame

\* A line that does not parse as a request.
DispatchMalformed ==
    /\ bpc = "dispatch"
    /\ Unwrap(cur).kind = "malformed"
    /\ resp' = Some(BatchResponseError(
                   IF Unwrap(cur).recoverable THEN RequestId(nRead) ELSE None,
                   "", "INVALID_INPUT"))
    /\ trace' = <<>>
    /\ bpc' = "write"
    /\ UNCHANGED <<cur, nRead, nRequests, nWritten, doneBy, ctx_state, now>>
    /\ BatchFrame

\* The quit sentinel.
DispatchQuit ==
    /\ bpc = "dispatch"
    /\ IsQuit(Unwrap(cur))
    /\ resp' = Some(BatchResponseSuccess(RequestId(nRead), "quit", "data", "inputs"))
    /\ trace' = <<>>
    /\ bpc' = "write"
    /\ UNCHANGED <<cur, nRead, nRequests, nWritten, doneBy, ctx_state, now>>
    /\ BatchFrame

\* Any other request goes through execute_batch_command.
DispatchCommand ==
    /\ bpc = "dispatch"
    /\ Unwrap(cur).kind = "request"
    /\ ~IsQuit(Unwrap(cur))
    /\ \E delta \in Deltas :
         LET request == BatchRequest(RequestId(nRead), Unwrap(cur).command, Unwrap(cur).args)
             d == ExecuteBatchCommand(request, ctx_state, delta, now)
         IN  /\ resp' = Some(d.response)
             /\ trace' = d.trace
             /\ ctx_state' = d.ctx_state
             /\ nWritten' = nWritten + d.printed
    /\ bpc' = "write"
    /\ UNCHANGED <<cur, nRead, nRequests, doneBy, now>>
    /\ BatchFrame

\* A loop that treats quit like any other request.
WriteResponseIgnoringQuit ==
    /\ bpc = "write"
    /\ nWritten' = nWritten + 1
    /\ resp' = None
    /\ cur' = None
    /\ trace' = <<>>
    /\ bpc' = "read"
    /\ UNCHANGED <<doneBy, nRead, nRequests, ctx_state, now>>
    /\ BatchFrame

\* Write the response as one NDJSON line; quit ends the loop.
WriteResponse ==
    /\ bpc = "write"
    /\ nWritten' = nWritten + 1
    /\ resp' = None
    /\ cur' = None
    /\ trace' = <<>>
    /\ IF IsQuit(Unwrap(cur))
       THEN bpc' = "done" /\ doneBy' = Some("quit")
       ELSE bpc' = "read" /\ UNCHANGED doneBy
    /\ UNCHANGED <<nRead, nRequests, ctx_state, now>>
    /\ BatchFrame

\* The system clock advances.
Tick ==
    /\ bpc # "done"
    /\ now < MaxClock
    /\ now' = now + 1
    /\ UNCHANGED <<bpc, cur, resp, trace, nRead, nRequests, nWritten, doneBy, ctx_state>>
    /\ BatchFrame

BatchInit ==
    /\ bpc = "read"
    /\ cur = None
    /\ resp = None
    /\ trace = <<>>
    /\ nRead = 0
    /\ nRequests = 0
    /\ nWritten = 0
    /\ doneBy = None
    /\ ctx_state \in InitialContextStates
    /\ now = 0

BatchNext ==
    \/ ReadLine
    \/ ReadEof
    \/ DispatchMalformed
    \/ DispatchQuit
    \/ DispatchCommand
    \/ WriteResponse
    \/ Tick

(***************************************************************************)
(* Session request: crates/cli/src/session/spec.rs                         *)
(***************************************************************************)
BrowserKind == {"chromium", "firefox"}

SessionRequest(headless, auth_file, browser, cdp_endpoint, launch_server, port, keep) ==
    [ headless              |-> headless,
      auth_file             |-> auth_file,
      browser               |-> browser,
      cdp_endpoint          |-> cdp_endpoint,
      launch_server         |-> launch_server,
      remote_debugging_port |-> port,
      keep_browser_running  |-> keep ]

Requests ==
    { SessionRequest(h, a, b, c, l, p, k) :
        h \in BOOLEAN, a \in {None, Some("auth.json")}, b \in BrowserKind,
        c \in {None, Some("cdpA"), Some("cdpB")}, l \in BOOLEAN,
        p \in {None, Some(9222)}, k \in BOOLEAN }

(***************************************************************************)
(* Session descriptor (section 4.5 of the specification).                  *)
(***************************************************************************)
DRIVER_HASH == "driver-hash"

CtxWorkspaceId == "ws1"

CtxNamespace == "ns1"

SessionDescriptor(pid, browser, headless, cdp, ws, workspace_id, namespace, key, hash) ==
    [ pid          |-> pid,
      browser      |-> browser,
      headless     |-> headless,
      cdp_endpoint |-> cdp,
      ws_endpoint  |-> ws,
      workspace_id |-> workspace_id,
      namespace    |-> namespace,
      session_key  |-> key,
      driver_hash  |-> hash ]

\* "Belongs to this run": workspace id and namespace match the current context.
BelongsTo(d) ==
    d.workspace_id = Some(CtxWorkspaceId) /\ d.namespace = Some(CtxNamespace)

\* "Matches request": browser kind, headless flag, cdp endpoint (if the
\* request specifies one) and driver hash all match.
Matches(d, browser, headless, cdp_endpoint, driver_hash) ==
    /\ d.browser = browser
    /\ d.headless = headless
    /\ IsSome(cdp_endpoint) => d.cdp_endpoint = cdp_endpoint
    /\ IsSome(driver_hash) => d.driver_hash = driver_hash

\* Pids: OtherPid is a process that is not a run of the CLI modelled here (a
\* browser, a daemon, an earlier CLI); CliPid(n) is the n-th run of the CLI.
CliPid(n) == 200 + n

OtherPid == CliPid(0)

\* The descriptors left on disk by earlier runs: one that fits the default
\* request of this context, and its variations in one respect.
FittingDescriptor ==
    SessionDescriptor(OtherPid, "chromium", TRUE, Some("cdpA"), None,
                      Some(CtxWorkspaceId), Some(CtxNamespace), Some("ctx-key"),
                      Some(DRIVER_HASH))

InitialDescriptors ==
    { FittingDescriptor,
      [FittingDescriptor EXCEPT !.browser = "firefox"],
      [FittingDescriptor EXCEPT !.headless = FALSE],
      [FittingDescriptor EXCEPT !.cdp_endpoint = None, !.ws_endpoint = Some("wsA")],
      [FittingDescriptor EXCEPT !.cdp_endpoint = None],
      [FittingDescriptor EXCEPT !.workspace_id = Some("ws2")],
      [FittingDescriptor EXCEPT !.namespace = Some("ns2")],
      [FittingDescriptor EXCEPT !.driver_hash = Some("old-hash")] }

(***************************************************************************)
(* Strategy resolution (section 4.6 of the specification).                 *)
(***************************************************************************)
SessionStrategyInput(has_descriptor_path, refresh, no_daemon, browser, cdp, port, launch_server) ==
    [ has_descriptor_path   |-> has_descriptor_path,
      refresh               |-> refresh,
      no_daemon             |-> no_daemon,
      browser               |-> browser,
      cdp_endpoint          |-> cdp,
      remote_debugging_port |-> port,
      launch_server         |-> launch_server ]

ResolveSessionStrategy(input) ==
    [ try_descriptor_reuse |-> ~(input.refresh \/ ~input.has_descriptor_path),
      try_daemon_lease     |-> ~input.no_daemon /\ IsNone(input.cdp_endpoint),
      primary              |->
          IF IsSome(input.cdp_endpoint) THEN "AttachCdp"
          ELSE IF IsSome(input.remote_debugging_port) THEN "PersistentDebug"
          ELSE IF input.launch_server THEN "LaunchServer"
          ELSE "FreshLaunch" ]

(***************************************************************************)
(* Session manager: crates/cli/src/session/manager.rs                      *)
(***************************************************************************)
SessionManager(has_path, namespace_id, refresh, no_daemon, pid) ==
    [ has_descriptor_path |-> has_path,
      namespace_id        |-> namespace_id,
      refresh             |-> refresh,
      no_daemon           |-> no_daemon,
      pid                 |-> pid ]

\* What an acquisition did, in order; the last entry of steps is where it ended.
SessionHandle(source, keep, endpoint, steps) ==
    [ ok |-> TRUE, source |-> source, keep_browser_running |-> keep,
      endpoint |-> endpoint, steps |-> steps ]

SessionError(steps) ==
    [ ok |-> FALSE, source |-> "none", keep_browser_running |-> FALSE,
      endpoint |-> None, steps |-> steps ]

\* SessionRepository::load: nothing without a path, else the file's descriptor.
RepositoryLoad(m, file) == IF m.has_descriptor_path THEN file ELSE None

\* SessionRepository::clear: the file afterwards.  Without a path nothing is
\* touched; a missing file is not an error; remove_file may also fail with
\* another I/O error, which leaves the file.
RepositoryClearResult(m, file) ==
    IF ~m.has_descriptor_path THEN {[ok |-> TRUE, removed |-> FALSE, file |-> file]}
    ELSE IF IsNone(file) THEN {[ok |-> TRUE, removed |-> FALSE, file |-> file]}
    ELSE { [ok |-> TRUE, removed |-> TRUE, file |-> None],
           [ok |-> FALSE, removed |-> FALSE, file |-> file] }

RepositoryClear(m, file) == { r.file : r \in RepositoryClearResult(m, file) }

\* SessionDescriptor::is_alive: the recorded pid exists on this host.
IsAlive(d, running) == d.pid \in running

Endpoint(d) == IF IsSome(d.cdp_endpoint) THEN d.cdp_endpoint ELSE d.ws_endpoint

\* A descriptor check that forgets the liveness of the recorded process.
DescriptorUsableIgnoringAlive(d, req, running) ==
    /\ BelongsTo(d)
    /\ Matches(d, req.browser, req.headless, req.cdp_endpoint, Some(DRIVER_HASH))

\* The condition of acquire_from_descriptor on the loaded descriptor.
DescriptorUsable(d, req, running) ==
    /\ BelongsTo(d)
    /\ Matches(d, req.browser, req.headless, req.cdp_endpoint, Some(DRIVER_HASH))
    /\ IsAlive(d, running)

\* acquire_from_descriptor: what it can return: Some(handle), Some(error)
\* when attaching to the endpoint fails, or None for "no handle".
AcquireFromDescriptor(m, req, file, running, steps) ==
    LET loaded == RepositoryLoad(m, file)
        st == Append(steps, "descriptor")
    IN  IF IsNone(loaded) THEN {None}
        ELSE IF ~DescriptorUsable(Unwrap(loaded), req, running) THEN {None}
        ELSE IF IsNone(Endpoint(Unwrap(loaded))) THEN {None}
        ELSE { Some(SessionHandle("CachedDescriptor", TRUE, Endpoint(Unwrap(loaded)),
                                  Append(st, "attach"))),
               Some(SessionError(Append(st, "attach"))) }

DaemonLease(endpoint, session_key) == [endpoint |-> endpoint, session_key |-> session_key]

\* acquire_from_daemon: no lease without asking (not tried, daemon unreachable,
\* no namespace id), no lease after asking, or a lease.  An acquisition that
\* asked has step "daemon", one that was granted a lease also step "lease".
AcquireFromDaemon(m, req, try_daemon_lease) ==
    IF ~try_daemon_lease THEN {[lease |-> None, requested |-> FALSE]}
    ELSE IF IsNone(m.namespace_id)
    THEN {[lease |-> None, requested |-> FALSE]}
    ELSE { [lease |-> None, requested |-> FALSE],
           [lease |-> None, requested |-> TRUE],
           [lease |-> Some(DaemonLease("daemonEp", "lease-key")), requested |-> TRUE] }

\* acquire_primary: the session (source, keep, cdp endpoint, ws endpoint) or
\* an error, with the steps taken: "attach_lease" for the attach to a leased
\* endpoint, "primary" for entering the primary strategy, then "connect" or
\* "launch" for the browser operation it invokes.
PrimarySession(source, keep, cdp, ws, steps) ==
    [ok |-> TRUE, source |-> source, keep_browser_running |-> keep, cdp |-> cdp, ws |-> ws,
     steps |-> steps]

PrimaryError(steps) ==
    [ok |-> FALSE, source |-> "none", keep_browser_running |-> FALSE, cdp |-> None, ws |-> None,
     steps |-> steps]

\* An acquire_primary that runs the primary strategy even when a lease is held.
AcquirePrimaryIgnoringLease(req, primary, lease) ==
    IF primary = "AttachCdp"
    THEN { PrimarySession("CdpConnect", TRUE, req.cdp_endpoint, None, <<"primary", "connect">>),
           PrimaryError(<<"primary", "connect">>) }
    ELSE IF primary = "PersistentDebug"
    THEN { PrimarySession("PersistentDebug", req.keep_browser_running, Some("cdpPort"), None,
                          <<"primary", "launch">>),
           PrimaryError(<<"primary", "launch">>) }
    ELSE IF primary = "LaunchServer"
    THEN { PrimarySession("BrowserServer", FALSE, None, Some("wsServer"), <<"primary", "launch">>),
           PrimaryError(<<"primary", "launch">>) }
    ELSE { PrimarySession("Fresh", FALSE, None, None, <<"primary", "launch">>),
           PrimaryError(<<"primary", "launch">>) }

\* An acquire_primary whose persistent launch accepts any browser.
AcquirePrimaryAnyBrowser(req, primary, lease) ==
    IF IsSome(lease)
    THEN { PrimarySession("Daemon", TRUE, Some(Unwrap(lease).endpoint), None, <<"attach_lease">>),
           PrimaryError(<<"attach_lease">>) }
    ELSE IF primary = "AttachCdp"
    THEN { PrimarySession("CdpConnect", TRUE, req.cdp_endpoint, None, <<"primary", "connect">>),
           PrimaryError(<<"primary", "connect">>) }
    ELSE IF primary = "PersistentDebug"
    THEN { PrimarySession("PersistentDebug", req.keep_browser_running, Some("cdpPort"), None,
                          <<"primary", "launch">>),
           PrimaryError(<<"primary", "launch">>) }
    ELSE IF primary = "LaunchServer"
    THEN { PrimarySession("BrowserServer", FALSE, None, Some("wsServer"), <<"primary", "launch">>),
           PrimaryError(<<"primary", "launch">>) }
    ELSE { PrimarySession("Fresh", FALSE, None, None, <<"primary", "launch">>),
           PrimaryError(<<"primary", "launch">>) }

\* An acquire_primary that leaves keep-running as requested when attaching.
AcquirePrimaryKeepAsRequested(req, primary, lease) ==
    IF IsSome(lease)
    THEN { PrimarySession("Daemon", req.keep_browser_running, Some(Unwrap(lease).endpoint),
                          None, <<"attach_lease">>),
           PrimaryError(<<"attach_lease">>) }
    ELSE IF primary = "AttachCdp"
    THEN { PrimarySession("CdpConnect", req.keep_browser_running, req.cdp_endpoint, None,
                          <<"primary", "connect">>),
           PrimaryError(<<"primary", "connect">>) }
    ELSE { PrimarySession("Fresh", FALSE, None, None, <<"primary", "launch">>),
           PrimaryError(<<"primary", "launch">>) }

AcquirePrimary(req, primary, lease) ==
    IF IsSome(lease)
    THEN { PrimarySession("Daemon", TRUE, Some(Unwrap(lease).endpoint), None, <<"attach_lease">>),
           PrimaryError(<<"attach_lease">>) }
    ELSE IF primary = "AttachCdp"
    THEN IF IsNone(req.cdp_endpoint) THEN {PrimaryError(<<"primary">>)}
         ELSE { PrimarySession("CdpConnect", TRUE, req.cdp_endpoint, None,
                               <<"primary", "connect">>),
                PrimaryError(<<"primary", "connect">>) }
    ELSE IF primary = "PersistentDebug"
    THEN IF IsNone(req.remote_debugging_port) THEN {PrimaryError(<<"primary">>)}
         ELSE IF req.browser # "chromium" THEN {PrimaryError(<<"primary">>)}
         ELSE { PrimarySession("PersistentDebug", req.keep_browser_running,
                               Some("cdpPort"), None, <<"primary", "launch">>),
                PrimaryError(<<"primary", "launch">>) }
    ELSE IF primary = "LaunchServer"
    THEN { PrimarySession("BrowserServer", FALSE, None, Some("wsServer"),
                          <<"primary", "launch">>),
           PrimaryError(<<"primary", "launch">>) }
    ELSE { PrimarySession("Fresh", FALSE, None, None, <<"primary", "launch">>),
           PrimaryError(<<"primary", "launch">>) }

\* An auto-injection that does not look at the request's auth file.
AutoInjectAuthDespiteAuthFile(req, lease) ==
    IF IsSome(req.cdp_endpoint) \/ IsSome(lease)
    THEN {"no_auth_files", "injected", "failed"}
    ELSE {"skipped"}

\* auto_inject_auth_if_needed: "skipped" when the condition fails,
\* "no_auth_files" when the project has none, else "injected" or "failed".
AutoInjectAuth(req, lease) ==
    IF (IsSome(req.cdp_endpoint) \/ IsSome(lease)) /\ IsNone(req.auth_file)
    THEN {"no_auth_files", "injected", "failed"}
    ELSE {"skipped"}

\* A persist that keeps the endpoints of a descriptor already on disk.
PersistDescriptorMerging(m, req, session, lease, file) ==
    IF ~m.has_descriptor_path THEN {[file |-> file, saved |-> FALSE]}
    ELSE IF IsNone(session.cdp) /\ IsNone(session.ws) THEN {[file |-> file, saved |-> FALSE]}
    ELSE { [file  |-> Some(SessionDescriptor(m.pid, req.browser, req.headless,
                               IF IsSome(file) THEN Unwrap(file).cdp_endpoint ELSE session.cdp,
                               IF IsSome(file) THEN Unwrap(file).ws_endpoint ELSE session.ws,
                               Some(CtxWorkspaceId), Some(CtxNamespace),
                               IF IsSome(lease) THEN Some(Unwrap(lease).session_key)
                                                ELSE Some("ctx-key"),
                               Some(DRIVER_HASH))),
            saved |-> TRUE],
           [file |-> file, saved |-> FALSE] }

\* persist_descriptor_if_needed: the descriptor file afterwards, and whether
\* this call wrote it.  A failed save is only logged.
PersistDescriptor(m, req, session, lease, file) ==
    IF ~m.has_descriptor_path THEN {[file |-> file, saved |-> FALSE]}
    ELSE IF IsNone(session.cdp) /\ IsNone(session.ws) THEN {[file |-> file, saved |-> FALSE]}
    ELSE { [file  |-> Some(SessionDescriptor(m.pid, req.browser, req.headless,
                               session.cdp, session.ws,
                               Some(CtxWorkspaceId), Some(CtxNamespace),
                               IF IsSome(lease) THEN Some(Unwrap(lease).session_key)
                                                ELSE Some("ctx-key"),
                               Some(DRIVER_HASH))),
            saved |-> TRUE],
           [file |-> file, saved |-> FALSE] }

Acquired(handle, file) == [handle |-> handle, file |-> file]

\* A session() that saves the descriptor before injecting the auth files.
AcquireFromPrimaryEagerPersist(m, req, strategy, file, dl, steps) ==
    UNION { IF ~s.ok
            THEN {Acquired(SessionError(steps \o s.steps), file)}
            ELSE UNION { { IF inj = "failed"
                           THEN Acquired(SessionError(steps \o s.steps \o <<"inject">>), w.file)
                           ELSE Acquired(SessionHandle(s.source, s.keep_browser_running,
                                             IF IsSome(s.cdp) THEN s.cdp ELSE s.ws,
                                             steps \o s.steps
                                                   \o (IF w.saved THEN <<"persist">> ELSE <<>>)
                                                   \o (IF inj = "injected" THEN <<"inject">>
                                                       ELSE IF inj = "no_auth_files"
                                                       THEN <<"no_auth_files">> ELSE <<>>)),
                                         w.file)
                           : w \in PersistDescriptor(m, req, s, dl.lease, file) }
                         : inj \in AutoInjectAuth(req, dl.lease) }
            : s \in AcquirePrimary(req, strategy.primary, dl.lease) }

\* The steps of SessionManager::session after the descriptor step, given the
\* daemon outcome dl: primary strategy, auth injection, descriptor persistence.
AcquireFromPrimary(m, req, strategy, file, dl, steps) ==
    UNION { IF ~s.ok
            THEN {Acquired(SessionError(steps \o s.steps), file)}
            ELSE UNION { IF inj = "failed"
                         THEN {Acquired(SessionError(steps \o s.steps \o <<"inject">>), file)}
                         ELSE { Acquired(SessionHandle(s.source, s.keep_browser_running,
                                             IF IsSome(s.cdp) THEN s.cdp ELSE s.ws,
                                             steps \o s.steps
                                                   \o (IF inj = "injected" THEN <<"inject">>
                                                       ELSE IF inj = "no_auth_files"
                                                       THEN <<"no_auth_files">> ELSE <<>>)
                                                   \o (IF w.saved THEN <<"persist">> ELSE <<>>)),
                                         w.file)
                                : w \in PersistDescriptor(m, req, s, dl.lease, file) }
                         : inj \in AutoInjectAuth(req, dl.lease) }
            : s \in AcquirePrimary(req, strategy.primary, dl.lease) }

\* The steps after the descriptor step: daemon lease, then the rest.
AcquireFresh(m, req, strategy, file, steps) ==
    UNION { AcquireFromPrimary(m, req, strategy, file, dl,
                               steps \o (IF dl.requested THEN <<"daemon">> ELSE <<>>)
                                     \o (IF IsSome(dl.lease) THEN <<"lease">> ELSE <<>>))
            : dl \in AcquireFromDaemon(m, req, strategy.try_daemon_lease) }

Strategy(m, req) ==
    ResolveSessionStrategy(SessionStrategyInput(
        m.has_descriptor_path, m.refresh, m.no_daemon, req.browser,
        req.cdp_endpoint, req.remote_debugging_port, req.launch_server))

\* The descriptor step of session() when refresh is unset.
ReuseOrAcquire(m, req, file, running, steps) ==
    UNION { IF IsNone(h)
            THEN AcquireFresh(m, req, Strategy(m, req), file, Append(steps, "descriptor"))
            ELSE {Acquired(Unwrap(h), file)}
            : h \in AcquireFromDescriptor(m, req, file, running, steps) }

\* SessionManager::session: every (handle or error, descriptor file) the
\* acquisition can end with.  An auth file that fails to load ends it first.
Session(m, req, file, running) ==
    LET st0 == IF IsSome(req.auth_file) THEN <<"load_auth">> ELSE <<>>
    IN  (IF IsSome(req.auth_file) THEN {Acquired(SessionError(st0), file)} ELSE {})
        \cup
        IF m.refresh
        THEN UNION { AcquireFresh(m, req, Strategy(m, req), f1, Append(st0, "clear"))
                     : f1 \in RepositoryClear(m, file) }
        ELSE IF Strategy(m, req).try_descriptor_reuse
        THEN ReuseOrAcquire(m, req, file, running, st0)
        ELSE AcquireFresh(m, req, Strategy(m, req), file, st0)

(***************************************************************************)
(* session.status, session.clear, session.stop: manager.rs                 *)
(***************************************************************************)
\* The payload of a session management command, or its error (~ok); flag is
\* active, cleared or stopped; steps is what the command did and endpoint the
\* endpoint it attached to, if any.
Response(op, flag, alive, message, steps) ==
    [op |-> op, ok |-> TRUE, flag |-> flag, alive |-> alive, message |-> message,
     steps |-> steps, endpoint |-> None]

ResponseError(op, steps) ==
    [op |-> op, ok |-> FALSE, flag |-> FALSE, alive |-> FALSE, message |-> "error",
     steps |-> steps, endpoint |-> None]

\* SessionManager::descriptor_status
DescriptorStatus(m, file, running) ==
    IF ~m.has_descriptor_path
    THEN Response("status", FALSE, FALSE, "No active namespace; session status unavailable", <<>>)
    ELSE IF IsSome(RepositoryLoad(m, file))
    THEN Response("status", TRUE, IsAlive(Unwrap(RepositoryLoad(m, file)), running), "", <<>>)
    ELSE Response("status", FALSE, FALSE,
                  "No session descriptor for namespace; run a browser command to create one", <<>>)

Managed(response, file, closed) == [response |-> response, file |-> file, closed |-> closed]

\* A session.clear that reports a missing descriptor as an error.
ClearDescriptorResponseStrict(m, file) ==
    IF ~m.has_descriptor_path
    THEN {Managed(Response("clear", FALSE, FALSE, "No active namespace; nothing to clear", <<>>),
                  file, FALSE)}
    ELSE { IF r.ok /\ r.removed
           THEN Managed(Response("clear", TRUE, FALSE, "", <<"clear">>), r.file, FALSE)
           ELSE Managed(ResponseError("clear", <<"clear">>), r.file, FALSE)
           : r \in RepositoryClearResult(m, file) }

\* SessionManager::clear_descriptor_response
ClearDescriptorResponse(m, file) ==
    IF ~m.has_descriptor_path
    THEN {Managed(Response("clear", FALSE, FALSE, "No active namespace; nothing to clear", <<>>),
                  file, FALSE)}
    ELSE { IF ~r.ok THEN Managed(ResponseError("clear", <<"clear">>), r.file, FALSE)
           ELSE IF r.removed
           THEN Managed(Response("clear", TRUE, FALSE, "", <<"clear">>), r.file, FALSE)
           ELSE Managed(Response("clear", FALSE, FALSE, "No session descriptor found",
                                 <<"clear">>), r.file, FALSE)
           : r \in RepositoryClearResult(m, file) }

\* The request session.stop builds for a descriptor with an endpoint.
StopRequest(d, auth_file) ==
    SessionRequest(d.headless, auth_file, d.browser, Endpoint(d), FALSE, None, FALSE)

\* A stop that closes the browser and leaves the descriptor.
StopAcquiredKeepingDescriptor(m, o) ==
    IF ~o.handle.ok
    THEN {Managed(ResponseError("stop", o.handle.steps), o.file, FALSE)}
    ELSE { Managed(ResponseError("stop", Append(o.handle.steps, "close")), o.file, FALSE),
           Managed([Response("stop", TRUE, FALSE, "", Append(o.handle.steps, "close"))
                        EXCEPT !.endpoint = o.handle.endpoint],
                   o.file, TRUE) }

\* The end of stop_descriptor_session once session() returned o: close the
\* browser, then clear the descriptor; either may fail.
StopAcquired(m, o) ==
    IF ~o.handle.ok
    THEN {Managed(ResponseError("stop", o.handle.steps), o.file, FALSE)}
    ELSE {Managed(ResponseError("stop", Append(o.handle.steps, "close")), o.file, FALSE)}
         \cup
         { IF r.ok
           THEN Managed([Response("stop", TRUE, FALSE, "",
                                  o.handle.steps \o <<"close", "clear">>)
                            EXCEPT !.endpoint = o.handle.endpoint],
                        r.file, TRUE)
           ELSE Managed(ResponseError("stop", o.handle.steps \o <<"close", "clear">>),
                        r.file, TRUE)
           : r \in RepositoryClearResult(m, o.file) }

\* A stop that reports a descriptor without endpoint and leaves it on disk.
StopDescriptorSessionNoCleanup(m, file, running, auth_file) ==
    IF ~m.has_descriptor_path
    THEN {Managed(Response("stop", FALSE, FALSE, "No active namespace; nothing to stop", <<>>),
                  file, FALSE)}
    ELSE IF IsNone(RepositoryLoad(m, file))
    THEN {Managed(Response("stop", FALSE, FALSE,
                           "No session descriptor for namespace; nothing to stop", <<>>),
                  file, FALSE)}
    ELSE IF IsNone(Endpoint(Unwrap(file)))
    THEN {Managed(Response("stop", FALSE, FALSE,
                           "Descriptor missing endpoint; removed descriptor", <<>>),
                  file, FALSE)}
    ELSE UNION { StopAcquired(m, o)
                 : o \in Session(m, StopRequest(Unwrap(file), auth_file), file, running) }

\* SessionManager::stop_descriptor_session
StopDescriptorSession(m, file, running, auth_file) ==
    IF ~m.has_descriptor_path
    THEN {Managed(Response("stop", FALSE, FALSE, "No active namespace; nothing to stop", <<>>),
                  file, FALSE)}
    ELSE IF IsNone(RepositoryLoad(m, file))
    THEN {Managed(Response("stop", FALSE, FALSE,
                           "No session descriptor for namespace; nothing to stop", <<>>),
                  file, FALSE)}
    ELSE IF IsNone(Endpoint(Unwrap(file)))
    THEN { IF r.ok
           THEN Managed(Response("stop", FALSE, FALSE,
                                 "Descriptor missing endpoint; removed descriptor", <<"clear">>),
                        r.file, FALSE)
           ELSE Managed(ResponseError("stop", <<"clear">>), r.file, FALSE)
           : r \in RepositoryClearResult(m, file) }
    ELSE UNION { StopAcquired(m, o)
                 : o \in Session(m, StopRequest(Unwrap(file), auth_file), file, running) }

(***************************************************************************)
(* Actions of the session specification.                                   *)
(***************************************************************************)
\* A CLI process starts and builds its SessionManager (SessionManager::new).
NewInvocation ==
    /\ IsNone(mgr)
    /\ invocations < MaxInvocations
    /\ \E has_path \in BOOLEAN, ns \in {None, Some("nsid")}, refresh \in BOOLEAN,
          no_daemon \in BOOLEAN :
            mgr' = Some(SessionManager(has_path, ns, refresh, no_daemon,
                                       CliPid(invocations + 1)))
    /\ procs' = procs \cup {CliPid(invocations + 1)}
    /\ invocations' = invocations + 1
    /\ acq' = None
    /\ cmd' = None
    /\ browserState' = "none"
    /\ UNCHANGED disk
    /\ SessFrame

\* SessionManager::session(request), once per run; a run either acquires a
\* session for a browser command or serves session management commands.
AcquireSession ==
    /\ IsSome(mgr)
    /\ IsNone(acq)
    /\ IsNone(cmd)
    /\ \E req \in Requests :
         \E o \in Session(Unwrap(mgr), req, disk, procs) :
            /\ acq' = Some([request |-> req, handle |-> o.handle])
            /\ disk' = o.file
            /\ browserState' = IF o.handle.ok THEN "running" ELSE browserState
    /\ UNCHANGED <<mgr, procs, invocations, cmd>>
    /\ SessFrame

\* session.status
SessionStatus ==
    /\ IsSome(mgr)
    /\ IsNone(acq)
    /\ cmd' = Some(DescriptorStatus(Unwrap(mgr), disk, procs))
    /\ UNCHANGED <<mgr, disk, procs, acq, invocations, browserState>>
    /\ SessFrame

\* session.clear
SessionClear ==
    /\ IsSome(mgr)
    /\ IsNone(acq)
    /\ \E o \in ClearDescriptorResponse(Unwrap(mgr), disk) :
         /\ cmd' = Some(o.response)
         /\ disk' = o.file
    /\ UNCHANGED <<mgr, procs, acq, invocations, browserState>>
    /\ SessFrame

\* session.stop
SessionStop ==
    /\ IsSome(mgr)
    /\ IsNone(acq)
    /\ \E a \in {None, Some("auth.json")} :
         \E o \in StopDescriptorSession(Unwrap(mgr), disk, procs, a) :
            /\ cmd' = Some(o.response)
            /\ disk' = o.file
            /\ browserState' = IF o.closed THEN "closed" ELSE browserState
    /\ UNCHANGED <<mgr, procs, acq, invocations>>
    /\ SessFrame

\* BrowserSession on drop: the browser is closed unless keep_browser_running.
DropSession(handle, b) ==
    IF handle.ok /\ ~handle.keep_browser_running THEN "closed" ELSE b

\* The CLI process exits, dropping the session it holds.
EndInvocation ==
    /\ IsSome(mgr)
    /\ mgr' = None
    /\ acq' = None
    /\ cmd' = None
    /\ browserState' =
          IF IsSome(acq) THEN DropSession(Unwrap(acq).handle, browserState) ELSE browserState
    /\ procs' = procs \ {Unwrap(mgr).pid}
    /\ UNCHANGED <<disk, invocations>>
    /\ SessFrame

\* The other process exits.
OtherProcessExits ==
    /\ OtherPid \in procs
    /\ procs' = procs \ {OtherPid}
    /\ UNCHANGED <<mgr, disk, acq, invocations, browserState, cmd>>
    /\ SessFrame

SessInit ==
    /\ mgr = None
    /\ disk \in {None} \cup { Some(d) : d \in InitialDescriptors }
    /\ procs = {OtherPid}
    /\ acq = None
    /\ invocations = 0
    /\ browserState = "none"
    /\ cmd = None

\* The session subsystem at rest, for the other specifications.
SessIdle ==
    /\ mgr = None
    /\ disk = None
    /\ procs = {}
    /\ acq = None
    /\ invocations = 0
    /\ browserState = "none"
    /\ cmd = None

SessNext ==
    \/ NewInvocation
    \/ AcquireSession
    \/ SessionStatus
    \/ SessionClear
    \/ SessionStop
    \/ EndInvocation
    \/ OtherProcessExits

(***************************************************************************)
(* Concurrent invocations on the descriptor file of one (workspace,        *)
(* namespace): section 5 of the specification, repository.rs, manager.rs.  *)
(***************************************************************************)
Writers == 1..MaxWriters

\* The file on disk: absent (None), or present with a complete descriptor, or
\* present and partial while a save is in progress.
CompleteFile(d) == Some([complete |-> TRUE, descriptor |-> Some(d)])

PartialFile == Some([complete |-> FALSE, descriptor |-> None])

\* Readers treat absent and partial files as absent.
ReadDescriptorFile(file) ==
    IF IsSome(file) /\ Unwrap(file).complete THEN Unwrap(file).descriptor ELSE None

\* An invocation that has acquired a session on an endpoint and is about to
\* persist its descriptor.
Writer(pc, m, req, session) == [pc |-> pc, m |-> m, req |-> req, session |-> session]

StartingWriters(p) ==
    { Writer("start",
             SessionManager(TRUE, None, refresh, TRUE, CliPid(p)),
             SessionRequest(TRUE, None, b, Some(ep), FALSE, None, FALSE),
             PrimarySession("CdpConnect", TRUE, Some(ep), None, <<"primary", "connect">>))
      : refresh \in BOOLEAN, b \in BrowserKind, ep \in {"cdpA", "cdpB"} }

\* session() with refresh set clears the descriptor first.
RaceClear(p) ==
    /\ writers[p].pc = "start"
    /\ \/ /\ writers[p].m.refresh
          /\ descriptorFile' \in RepositoryClear(writers[p].m, descriptorFile)
          /\ lastWriter' = IF IsNone(descriptorFile') THEN 0 ELSE lastWriter
       \/ /\ ~writers[p].m.refresh
          /\ UNCHANGED <<descriptorFile, lastWriter>>
    /\ writers' = [writers EXCEPT ![p].pc = "acquired"]
    /\ RaceFrame

\* persist_descriptor_if_needed starts its save: the file is opened and
\* holds a partial descriptor until the save finishes; or the save fails and
\* is only logged.
RaceBeginSave(p) ==
    /\ writers[p].pc = "acquired"
    /\ \/ /\ descriptorFile' = PartialFile
          /\ writers' = [writers EXCEPT ![p].pc = "saving"]
       \/ /\ UNCHANGED descriptorFile
          /\ writers' = [writers EXCEPT ![p].pc = "done"]
    /\ UNCHANGED lastWriter
    /\ RaceFrame

\* The save finishes: the file holds the descriptor this invocation built.
RaceFinishSave(p) ==
    /\ writers[p].pc = "saving"
    /\ \E w \in PersistDescriptor(writers[p].m, writers[p].req, writers[p].session, None,
                                  ReadDescriptorFile(descriptorFile)) :
         /\ w.saved
         /\ descriptorFile' = CompleteFile(Unwrap(w.file))
    /\ lastWriter' = p
    /\ writers' = [writers EXCEPT ![p].pc = "done"]
    /\ RaceFrame

RaceInit ==
    /\ writers \in { w \in [Writers -> UNION { StartingWriters(p) : p \in Writers }] :
                       \A p \in Writers : w[p] \in StartingWriters(p) }
    /\ descriptorFile \in {None, CompleteFile(FittingDescriptor)}
    /\ lastWriter = 0

\* No concurrent invocations, for the other specifications.
RaceIdle ==
    /\ writers = <<>>
    /\ descriptorFile = None
    /\ lastWriter = 0

RaceClearStep == \E p \in Writers : RaceClear(p)

RaceBeginSaveStep == \E p \in Writers : RaceBeginSave(p)

RaceFinishSaveStep == \E p \in Writers : RaceFinishSave(p)

RaceNext ==
    \/ RaceClearStep
    \/ RaceBeginSaveStep
    \/ RaceFinishSaveStep

(***************************************************************************)
(* Context store across invocations.  A run builds its ContextState from   *)
(* the two files (ContextState::new), calls the operations of the store,   *)
(* persists and exits; the next run starts from the files the earlier runs *)
(* left.                                                                   *)
(***************************************************************************)
\* The instants the clock takes: around the staleness threshold.
Times == {0, SESSION_TIMEOUT_SECS, SESSION_TIMEOUT_SECS + 1}

\* The endpoints `connect` is given.
Endpoints == {"ws://e1", "ws://e2"}

\* The deltas the commands of a run return.
CtxDeltas == { d \in Deltas : d.selector = None <=> d.output = None }

\* The patterns `protect add` and `protect remove` are given.
Patterns == {<<"a">>, <<"A">>, <<"b">>}

\* What a run was started with: its number, the operations done so far, the
\* --refresh flag, the clock at load and the timestamp it loaded.
RunInfo(n, ops, refresh_flag, loaded_at, loaded_used) ==
    [n |-> n, ops |-> ops, refresh_flag |-> refresh_flag,
     loaded_at |-> loaded_at, loaded_used |-> loaded_used]

\* The last operation: its name, its argument, whether the call before it
\* was the same call and, if it was, the state this call was made in.
Op(name, arg, pre, repeat) ==
    [op |-> name, arg |-> arg, repeat |-> repeat, pre |-> IF repeat THEN pre ELSE None]

NoOp == Op("none", None, None, FALSE)

Repeats(name, arg) == clog.op = name /\ clog.arg = arg

\* --no-context and --no-save of a run (both at once act as --no-context).
Modes == { [no_context |-> FALSE, no_save |-> FALSE],
           [no_context |-> FALSE, no_save |-> TRUE],
           [no_context |-> TRUE,  no_save |-> FALSE] }

MutationsEnabled(cs) == ~cs.no_save /\ ~cs.no_context

\* main: ContextState::new(project_root, requested, base_url, no_context, no_save, refresh)
CtxNew ==
    /\ IsNone(cstate)
    /\ crun.n < MaxRuns
    /\ \E project_root \in {None, Some(ProjectRoot)}, requested \in {None, Some("work")},
          base \in {None, Some("https://base")}, mode \in Modes, rf \in BOOLEAN :
         LET cs == ContextStateNew(globalDisk, projectDisk, project_root, requested,
                                   base, mode.no_context, mode.no_save, rf, ctime)
         IN  /\ cstate' = Some(cs)
             /\ crun' = RunInfo(crun.n + 1, crun.ops, rf, ctime,
                                IF IsSome(cs.selected)
                                THEN Unwrap(cs.selected).data.last_used_at ELSE None)
    /\ clog' = NoOp
    /\ wantCdp' = savedCdp
    /\ UNCHANGED <<globalDisk, projectDisk, ctime, savedCdp>>
    /\ CtxFrame

\* connect endpoint=E, connect clear=true: ContextState::set_cdp_endpoint
CtxSetCdpEndpoint ==
    /\ IsSome(cstate)
    /\ crun.ops < MaxOps
    /\ \E e \in {None} \cup { Some(x) : x \in Endpoints } :
         /\ cstate' = Some(SetCdpEndpoint(Unwrap(cstate), e))
         /\ clog' = Op("set_cdp_endpoint", e, cstate, Repeats("set_cdp_endpoint", e))
         /\ wantCdp' = IF MutationsEnabled(Unwrap(cstate)) THEN e ELSE wantCdp
    /\ crun' = [crun EXCEPT !.ops = @ + 1]
    /\ UNCHANGED <<globalDisk, projectDisk, ctime, savedCdp>>
    /\ CtxFrame

\* ContextState::apply_delta
CtxApplyDelta ==
    /\ IsSome(cstate)
    /\ crun.ops < MaxOps
    /\ \E delta \in CtxDeltas :
         /\ cstate' = Some(ApplyDelta(Unwrap(cstate), delta, ctime))
         /\ clog' = Op("apply_delta", delta, cstate, Repeats("apply_delta", delta))
    /\ crun' = [crun EXCEPT !.ops = @ + 1]
    /\ UNCHANGED <<globalDisk, projectDisk, ctime, wantCdp, savedCdp>>
    /\ CtxFrame

\* ContextState::add_protected
CtxAddProtected ==
    /\ IsSome(cstate)
    /\ crun.ops < MaxOps
    /\ \E p \in Patterns :
         /\ cstate' = Some(AddProtected(Unwrap(cstate), p).cs)
         /\ clog' = Op("add_protected", p, cstate, Repeats("add_protected", p))
    /\ crun' = [crun EXCEPT !.ops = @ + 1]
    /\ UNCHANGED <<globalDisk, projectDisk, ctime, wantCdp, savedCdp>>
    /\ CtxFrame

\* ContextState::remove_protected
CtxRemoveProtected ==
    /\ IsSome(cstate)
    /\ crun.ops < MaxOps
    /\ \E p \in Patterns :
         /\ cstate' = Some(RemoveProtected(Unwrap(cstate), p).cs)
         /\ clog' = Op("remove_protected", p, cstate, Repeats("remove_protected", p))
    /\ crun' = [crun EXCEPT !.ops = @ + 1]
    /\ UNCHANGED <<globalDisk, projectDisk, ctime, wantCdp, savedCdp>>
    /\ CtxFrame

\* ContextState::persist
CtxPersist ==
    /\ IsSome(cstate)
    /\ clog.op # "persist"
    /\ \E o \in Persist(Unwrap(cstate), globalDisk, projectDisk) :
         /\ cstate' = Some(o.cs)
         /\ globalDisk' = o.global
         /\ projectDisk' = o.project
         /\ clog' = Op("persist", Some(o.ok), cstate, FALSE)
         /\ savedCdp' = IF o.saved >= 1 THEN wantCdp ELSE savedCdp
    /\ UNCHANGED <<ctime, crun, wantCdp>>
    /\ CtxFrame

\* The process exits.
CtxExit ==
    /\ IsSome(cstate)
    /\ cstate' = None
    /\ clog' = NoOp
    /\ UNCHANGED <<globalDisk, projectDisk, ctime, crun, wantCdp, savedCdp>>
    /\ CtxFrame

\* The system clock advances.
CtxTick ==
    /\ \E t \in Times : t > ctime /\ ctime' = t
    /\ UNCHANGED <<cstate, globalDisk, projectDisk, crun, clog, wantCdp, savedCdp>>
    /\ CtxFrame

CtxIdle ==
    /\ cstate = None
    /\ globalDisk = None
    /\ projectDisk = None
    /\ ctime = 0
    /\ crun = RunInfo(0, 0, FALSE, 0, None)
    /\ clog = NoOp
    /\ wantCdp = None
    /\ savedCdp = None

\* No run yet; the global file is absent or was left without bytes.
CtxInit ==
    /\ cstate = None
    /\ globalDisk \in {None, EmptyFile}
    /\ projectDisk = None
    /\ ctime = 0
    /\ crun = RunInfo(0, 0, FALSE, 0, None)
    /\ clog = NoOp
    /\ wantCdp = None
    /\ savedCdp = None

CtxNext ==
    \/ CtxNew
    \/ CtxSetCdpEndpoint
    \/ CtxApplyDelta
    \/ CtxAddProtected
    \/ CtxRemoveProtected
    \/ CtxPersist
    \/ CtxExit
    \/ CtxTick

(***************************************************************************)
(* tabs switch / tabs close: crates/pw-cli/src/commands/tabs.rs            *)
(*                                                                         *)
(* The command runs against a live browser: between two awaits of the      *)
(* command a tab can navigate.  Each step below is the code between two    *)
(* awaits.                                                                 *)
(***************************************************************************)
\* The URLs a tab can be at; <<"A", "b">> and <<"a">> contain the pattern
\* <<"a">> ignoring case.
TabUrls == {<<"b">>, <<"A", "b">>, <<"a">>}

\* The protected pattern lists of the selected context.
TabPatternLists == {<<>>, <<<<"a">>>>, <<<<"A">>>>}

\* A page: the URL it is at, the URL page.url() still reports, its title.
Page(url, known, title) == [url |-> url, known |-> known, title |-> title]

\* The targets of a command: an index (target.parse::<usize>() is Ok) or a pattern.
TabTargets ==
    { [kind |-> "index", index |-> n] : n \in 0..MaxTabs }
    \cup { [kind |-> "pattern", pattern |-> p] : p \in {<<"b">>, <<"B">>} }

\* page.evaluate_value("window.location.href").unwrap_or_else(|_| page.url()):
\* the URL the page is at or, if the evaluation fails, the one page.url() reports.
EvaluatedUrls(page) == {page.url, page.known}

\* The running command: switch or close, its target, where it is, the page
\* find_page returned (0: none) and the loop index of find_page.
TabCommand(op, target, pc, found, i) ==
    [op |-> op, target |-> target, pc |-> pc, found |-> found, i |-> i]

\* switch / close_tab up to `let pages = context.pages()`
TabsStart ==
    /\ IsNone(tcmd)
    /\ tdone < MaxTabCommands
    /\ \E op \in {"switch", "close"}, target \in TabTargets :
         tcmd' = Some(TabCommand(op, target, "find", 0, 1))
    /\ tact' = None
    /\ UNCHANGED <<tabs, tpats, tdone>>
    /\ TabFrame

\* find_page, target an index: the bounds check and the protection check.
TabsFindByIndex ==
    /\ IsSome(tcmd)
    /\ Unwrap(tcmd).pc = "find"
    /\ Unwrap(tcmd).target.kind = "index"
    /\ LET c == Unwrap(tcmd)
           n == c.target.index + 1
       IN  IF n > Len(tabs)
           THEN tcmd' = Some([c EXCEPT !.pc = "error"])
           ELSE \E url \in EvaluatedUrls(tabs[n]) :
                  IF IsProtectedBy(url, tpats)
                  THEN tcmd' = Some([c EXCEPT !.pc = "error"])
                  ELSE tcmd' = Some([c EXCEPT !.found = n,
                                              !.pc = IF c.op = "close" THEN "recheck" ELSE "act"])
    /\ UNCHANGED <<tabs, tpats, tact, tdone>>
    /\ TabFrame

\* find_page, target a pattern: one round of the loop over the pages.
TabsFindByPattern ==
    /\ IsSome(tcmd)
    /\ Unwrap(tcmd).pc = "find"
    /\ Unwrap(tcmd).target.kind = "pattern"
    /\ LET c == Unwrap(tcmd)
           target_lower == ToLowercase(c.target.pattern)
       IN  IF c.i > Len(tabs)
           THEN tcmd' = Some([c EXCEPT !.pc = "error"])
           ELSE \E url \in EvaluatedUrls(tabs[c.i]) :
                  IF /\ \/ Contains(ToLowercase(url), target_lower)
                        \/ Contains(ToLowercase(tabs[c.i].title), target_lower)
                     /\ ~IsProtectedBy(url, tpats)
                  THEN tcmd' = Some([c EXCEPT !.found = c.i,
                                              !.pc = IF c.op = "close" THEN "recheck" ELSE "act"])
                  ELSE tcmd' = Some([c EXCEPT !.i = @ + 1])
    /\ UNCHANGED <<tabs, tpats, tact, tdone>>
    /\ TabFrame

\* close_tab: the URL is read again and checked before the page is closed.
TabsRecheck ==
    /\ IsSome(tcmd)
    /\ Unwrap(tcmd).pc = "recheck"
    /\ LET c == Unwrap(tcmd)
       IN  \E url \in EvaluatedUrls(tabs[c.found]) :
             IF IsProtectedBy(url, tpats)
             THEN tcmd' = Some([c EXCEPT !.pc = "error"])
             ELSE tcmd' = Some([c EXCEPT !.pc = "title"])
    /\ UNCHANGED <<tabs, tpats, tact, tdone>>
    /\ TabFrame

\* close_tab: page.title().await
TabsTitle ==
    /\ IsSome(tcmd)
    /\ Unwrap(tcmd).pc = "title"
    /\ tcmd' = Some([Unwrap(tcmd) EXCEPT !.pc = "act"])
    /\ UNCHANGED <<tabs, tpats, tact, tdone>>
    /\ TabFrame

\* page.bring_to_front() / page.close(): the action, on the page as it is now.
TabsAct ==
    /\ IsSome(tcmd)
    /\ Unwrap(tcmd).pc = "act"
    /\ LET c == Unwrap(tcmd)
       IN  /\ tact' = Some([op |-> c.op, index |-> c.found, url |-> tabs[c.found].url])
           /\ tcmd' = Some([c EXCEPT !.pc = "done"])
    /\ UNCHANGED <<tabs, tpats, tdone>>
    /\ TabFrame

\* The command returns (print_result and session.close, or the error).
TabsReturn ==
    /\ IsSome(tcmd)
    /\ Unwrap(tcmd).pc \in {"done", "error"}
    /\ tcmd' = None
    /\ tdone' = tdone + 1
    /\ UNCHANGED <<tabs, tpats, tact>>
    /\ TabFrame

\* A tab of the browser navigates while the command runs.
TabNavigates ==
    /\ IsSome(tcmd)
    /\ Unwrap(tcmd).pc \notin {"done", "error"}
    /\ \E n \in 1..Len(tabs), url \in TabUrls :
         /\ url # tabs[n].url
         /\ tabs' = [tabs EXCEPT ![n].url = url]
    /\ UNCHANGED <<tpats, tcmd, tact, tdone>>
    /\ TabFrame

TabIdle ==
    /\ tabs = <<>>
    /\ tpats = <<>>
    /\ tcmd = None
    /\ tact = None
    /\ tdone = 0

\* The browser the command attaches to: up to MaxTabs pages, each at a URL
\* that page.url() reports correctly.
TabInit ==
    /\ tabs \in UNION { [1..k -> { Page(u, u, <<"B">>) : u \in TabUrls }] : k \in 1..MaxTabs }
    /\ tpats \in TabPatternLists
    /\ tcmd = None
    /\ tact = None
    /\ tdone = 0

TabNext ==
    \/ TabsStart
    \/ TabsFindByIndex
    \/ TabsFindByPattern
    \/ TabsRecheck
    \/ TabsTitle
    \/ TabsAct
    \/ TabsReturn
    \/ TabNavigates

(***************************************************************************)
(* ContextStore::save against a concurrent ContextStore::load:             *)
(* crates/cli/src/context_store/mod.rs                                     *)
(*                                                                         *)
(* save is fs::write(&self.path, json): the file is opened truncating and  *)
(* the bytes are then written into it.  Another invocation that loads the  *)
(* file sees it as it is on disk at that moment.                           *)
(***************************************************************************)
\* A save under way: the store file it writes, what the file held before.
SaveInProgress(file, previous, stage) ==
    [file |-> file, previous |-> previous, stage |-> stage]

\* What a load saw: the content read, the store it made of it, and the save
\* that was under way (None: none).
Loaded(content, save) == [content |-> content, file |-> StoreLoad(content), save |-> save]

\* An invocation loads the global file, applies a delta and persists; its
\* save opens the file, which truncates it (fs::write -> File::create).
SaveOpen ==
    /\ IsNone(swriter)
    /\ ssaves < MaxSaves
    /\ \E requested \in {None, Some("work")}, delta \in CtxDeltas :
         LET cs == ApplyDelta(ContextStateNew(sdisk, None, None, requested, None,
                                              FALSE, FALSE, FALSE, ssaves),
                              delta, ssaves + 1)
         IN  swriter' = Some(SaveInProgress(PersistStores(cs).global, sdisk, "opened"))
    /\ sdisk' = EmptyFile
    /\ UNCHANGED <<sreader, ssaves>>
    /\ SaveFrame

\* fs::write: write_all has written a part of the bytes.
SaveWriteSome ==
    /\ IsSome(swriter)
    /\ Unwrap(swriter).stage = "opened"
    /\ sdisk' = PrefixOfFile(Unwrap(swriter).file)
    /\ swriter' = Some([Unwrap(swriter) EXCEPT !.stage = "writing"])
    /\ UNCHANGED <<sreader, ssaves>>
    /\ SaveFrame

\* fs::write: the last bytes are written and save returns Ok(()).
SaveWriteAll ==
    /\ IsSome(swriter)
    /\ sdisk' = WholeFile(Unwrap(swriter).file)
    /\ swriter' = None
    /\ ssaves' = ssaves + 1
    /\ UNCHANGED sreader
    /\ SaveFrame

\* ContextStore::load in another invocation.
ConcurrentLoad ==
    /\ sreader' = Some(Loaded(sdisk, swriter))
    /\ UNCHANGED <<sdisk, swriter, ssaves>>
    /\ SaveFrame

SaveIdle ==
    /\ sdisk = None
    /\ swriter = None
    /\ sreader = None
    /\ ssaves = 0

\* The global file before the first save: absent, or left by an earlier run.
SaveInit ==
    /\ sdisk \in {None} \cup { WholeFile(SeedGlobalFile(u, Some(0))) :
                                 u \in {None, Some("https://u0")} }
    /\ swriter = None
    /\ sreader = None
    /\ ssaves = 0

SaveNext ==
    \/ SaveOpen
    \/ SaveWriteSome
    \/ SaveWriteAll
    \/ ConcurrentLoad

(***************************************************************************)
(* connect --launch / --discover / --kill:                                 *)
(* crates/cli/src/session/connect/{browser_launcher,cdp_probe,             *)
(* process_killer,mod}.rs                                                  *)
(***************************************************************************)
\* Result<T>
OkOf(value) == [ok |-> TRUE, value |-> value]

ErrOf(error) == [ok |-> FALSE, error |-> error]

\* The hosts fetch_cdp_endpoint asks, in its order: 127.0.0.1, localhost, [::1].
ProbeHosts == <<"127.0.0.1", "localhost", "[::1]">>

\* What a host answers to GET /json/version: the request fails ("refused"),
\* a status that is not a success ("status"), a success whose body is not a
\* CdpVersionInfo ("unparsable"), or a success with one ("usable").
HostAnswers == {"refused", "status", "unparsable", "usable"}

\* CdpVersionInfo of the browser a host answers for.
CdpVersionInfo(host) == [web_socket_debugger_url |-> "ws://" \o host, browser |-> Some("Chrome")]

\* fetch_cdp_endpoint: the loop over the three URLs from the i-th on.
RECURSIVE FetchFrom(_, _, _)
FetchFrom(ans, i, last_error) ==
    IF i > Len(ProbeHosts)
    THEN ErrOf("Failed to connect to port: " \o last_error)
    ELSE IF ans[i] = "refused" THEN FetchFrom(ans, i + 1, "send error")
    ELSE IF ans[i] = "status" THEN FetchFrom(ans, i + 1, "unexpected status")
    ELSE IF ans[i] = "unparsable" THEN ErrOf("Failed to parse CDP response")
    ELSE OkOf(CdpVersionInfo(ProbeHosts[i]))

\* fetch_cdp_endpoint(port), the HTTP client built
FetchCdpEndpoint(ans) == FetchFrom(ans, 1, "no response")

\* discover_chrome(port)
DiscoverChrome(ans) ==
    LET r == FetchCdpEndpoint(ans)
    IN  IF r.ok THEN r
        ELSE ErrOf("No Chrome instance with remote debugging found. Last error: " \o r.error)

\* The processes that can listen on the port.
Pids == {"101", "102"}

\* What lsof -ti :port gives: it cannot be run (or fails), or the pids it prints.
LsofOutputs == { [success |-> s, pids |-> p] : s \in BOOLEAN, p \in SUBSET Pids }

\* The result of kill_chrome and the pids that were sent TERM.
Killed(result, signalled) == [result |-> result, signalled |-> signalled]

\* A kill_chrome that does not probe the port first.
KillChromeWithoutProbe(ans, lsof, killable) ==
    IF ~lsof.success \/ lsof.pids = {}
    THEN Killed(ErrOf("Could not find process listening on port"), {})
    ELSE IF lsof.pids \cap killable = {}
    THEN Killed(ErrOf("Failed to kill process on port"), lsof.pids)
    ELSE Killed(OkOf(Some(lsof.pids \cap killable)), lsof.pids)

\* kill_chrome(port) (cfg(unix)): lsof is what lsof prints, killable the pids
\* kill -TERM succeeds on.
KillChrome(ans, lsof, killable) ==
    IF ~FetchCdpEndpoint(ans).ok THEN Killed(OkOf(None), {})
    ELSE IF ~lsof.success \/ lsof.pids = {}
    THEN Killed(ErrOf("Could not find process listening on port"), {})
    ELSE IF lsof.pids \cap killable = {}
    THEN Killed(ErrOf("Failed to kill process on port"), lsof.pids)
    ELSE Killed(OkOf(Some(lsof.pids \cap killable)), lsof.pids)

\* The steps of launch_chrome after the spawn: the loop counter, the probes
\* made, last_error, and what the steps saw (the sleep before the probe, the
\* exit try_wait reported, the first probe that succeeded, the last error of a probe).
Launch(pc, attempt, probes, last_error, slept, seen_exit, first_ok, probe_error) ==
    [pc |-> pc, attempt |-> attempt, probes |-> probes, last_error |-> last_error,
     slept |-> slept, seen_exit |-> seen_exit, first_ok |-> first_ok,
     probe_error |-> probe_error]

\* The last operation of the invocation and its result.
ConnectOp(op, ans, result, signalled, before) ==
    [op |-> op, answers |-> ans, result |-> result, signalled |-> signalled,
     before |-> before]

\* launch_chrome up to the spawn: no executable, the spawn fails, or the child runs.
LaunchSpawn ==
    /\ IsNone(launch)
    /\ child = "none"
    /\ kops < MaxConnectOps
    /\ \E outcome \in {"no executable", "spawn failed", "spawned"} :
         IF outcome = "spawned"
         THEN /\ child' = "running"
              /\ launch' = Some(Launch("sleep", 0, 0, "endpoint not reachable", 0,
                                       None, None, None))
              /\ kop' = ConnectOp("launch", <<>>, None, {}, CdpEndpoint(kctx))
              /\ kops' = kops
         ELSE /\ child' = child
              /\ launch' = None
              /\ kop' = ConnectOp("launch", <<>>, Some(ErrOf(outcome)), {}, CdpEndpoint(kctx))
              /\ kops' = kops + 1
    /\ UNCHANGED <<answers, kctx>>
    /\ ConnFrame

\* A loop of launch_chrome that makes one round more.
LaunchSleepOnceMore ==
    /\ IsSome(launch)
    /\ Unwrap(launch).pc = "sleep"
    /\ LET l == Unwrap(launch)
       IN  IF l.attempt < max_attempts + 1
           THEN /\ launch' = Some([l EXCEPT !.pc = "try_wait", !.attempt = @ + 1,
                                            !.slept = PROBE_INTERVAL_MS])
                /\ UNCHANGED kop
           ELSE /\ launch' = Some([l EXCEPT !.pc = "done"])
                /\ kop' = [kop EXCEPT !.result = Some(ErrOf([kind |-> "unavailable",
                                                             last_error |-> l.last_error]))]
    /\ UNCHANGED <<answers, child, kctx, kops>>
    /\ ConnFrame

\* for _ in 0..max_attempts { sleep(200 ms) ...: the loop ends after
\* max_attempts rounds with the last probe error.
LaunchSleep ==
    /\ IsSome(launch)
    /\ Unwrap(launch).pc = "sleep"
    /\ LET l == Unwrap(launch)
       IN  IF l.attempt < max_attempts
           THEN /\ launch' = Some([l EXCEPT !.pc = "try_wait", !.attempt = @ + 1,
                                            !.slept = PROBE_INTERVAL_MS])
                /\ UNCHANGED kop
           ELSE /\ launch' = Some([l EXCEPT !.pc = "done"])
                /\ kop' = [kop EXCEPT !.result = Some(ErrOf([kind |-> "unavailable",
                                                             last_error |-> l.last_error]))]
    /\ UNCHANGED <<answers, child, kctx, kops>>
    /\ ConnFrame

\* if let Ok(Some(status)) = child.try_wait(): try_wait can also fail, and
\* the loop then goes on as for a running child.
LaunchTryWait ==
    /\ IsSome(launch)
    /\ Unwrap(launch).pc = "try_wait"
    /\ LET l == Unwrap(launch)
       IN  \E waited \in (IF child = "running" THEN {OkOf(None)} ELSE {OkOf(Some(child))})
                         \cup {ErrOf("try_wait failed")} :
             IF waited.ok /\ IsSome(waited.value)
             THEN /\ launch' = Some([l EXCEPT !.pc = "done", !.seen_exit = waited.value])
                  /\ kop' = [kop EXCEPT !.result = Some(ErrOf([kind |-> "exited",
                                                               status |-> Unwrap(waited.value)]))]
             ELSE /\ launch' = Some([l EXCEPT !.pc = "probe"])
                  /\ UNCHANGED kop
    /\ UNCHANGED <<answers, child, kctx, kops>>
    /\ ConnFrame

\* match fetch_cdp_endpoint(port).await
LaunchProbe ==
    /\ IsSome(launch)
    /\ Unwrap(launch).pc = "probe"
    /\ LET l == Unwrap(launch)
           r == FetchCdpEndpoint(answers)
       IN  IF r.ok
           THEN /\ launch' = Some([l EXCEPT !.pc = "done", !.probes = @ + 1,
                                            !.first_ok = Some(r.value)])
                /\ kop' = [kop EXCEPT !.result = Some(r), !.answers = answers]
           ELSE /\ launch' = Some([l EXCEPT !.pc = "sleep", !.probes = @ + 1, !.slept = 0,
                                            !.last_error = r.error,
                                            !.probe_error = Some(r.error)])
                /\ UNCHANGED kop
    /\ UNCHANGED <<answers, child, kctx, kops>>
    /\ ConnFrame

\* launch_and_connect after launch_chrome: the endpoint is stored (or the
\* error returned), and the invocation goes on.
LaunchReturn ==
    /\ IsSome(launch)
    /\ Unwrap(launch).pc = "done"
    /\ kctx' = IF Unwrap(kop.result).ok
               THEN SetCdpEndpoint(kctx, Some(Unwrap(kop.result).value.web_socket_debugger_url))
               ELSE kctx
    /\ launch' = None
    /\ child' = "none"
    /\ kops' = kops + 1
    /\ UNCHANGED <<answers, kop>>
    /\ ConnFrame

\* discover_and_connect (no auth file)
ConnectDiscover ==
    /\ IsNone(launch)
    /\ kops < MaxConnectOps
    /\ LET r == DiscoverChrome(answers)
       IN  /\ kop' = ConnectOp("discover", answers, Some(r), {}, CdpEndpoint(kctx))
           /\ kctx' = IF r.ok THEN SetCdpEndpoint(kctx, Some(r.value.web_socket_debugger_url))
                      ELSE kctx
    /\ kops' = kops + 1
    /\ UNCHANGED <<answers, child, launch>>
    /\ ConnFrame

\* kill_browser_on_port
ConnectKill ==
    /\ IsNone(launch)
    /\ kops < MaxConnectOps
    /\ \E lsof \in LsofOutputs, killable \in SUBSET Pids :
         LET k == KillChrome(answers, lsof, killable)
         IN  /\ kop' = ConnectOp("kill", answers, Some(k.result), k.signalled, CdpEndpoint(kctx))
             /\ kctx' = IF k.result.ok /\ IsSome(k.result.value)
                        THEN SetCdpEndpoint(kctx, None)
                        ELSE kctx
    /\ kops' = kops + 1
    /\ UNCHANGED <<answers, child, launch>>
    /\ ConnFrame

\* A host starts or stops answering on the port while launch_chrome polls.
HostChanges ==
    /\ IsSome(launch)
    /\ Unwrap(launch).pc # "done"
    /\ \E i \in 1..Len(ProbeHosts), a \in HostAnswers :
         /\ answers[i] # a
         /\ answers' = [answers EXCEPT ![i] = a]
    /\ UNCHANGED <<child, launch, kctx, kop, kops>>
    /\ ConnFrame

\* The spawned browser exits.
ChildExits ==
    /\ child = "running"
    /\ \E status \in {"exit status: 0", "exit status: 1"} : child' = status
    /\ UNCHANGED <<answers, launch, kctx, kop, kops>>
    /\ ConnFrame

ConnIdle ==
    /\ answers = <<>>
    /\ child = "none"
    /\ launch = None
    /\ kctx = None
    /\ kop = None
    /\ kops = 0

\* An invocation of connect: what the hosts answer, and a context state with
\* or without a stored endpoint.
ConnInit ==
    /\ answers \in [1..Len(ProbeHosts) -> HostAnswers]
    /\ child = "none"
    /\ launch = None
    /\ kctx \in { SetCdpEndpoint(ContextStateNew(None, None, None, None, None,
                                                 FALSE, FALSE, FALSE, 0), e) :
                    e \in {None, Some("ws://old")} }
    /\ kop = ConnectOp("none", <<>>, None, {}, None)
    /\ kops = 0

ConnNext ==
    \/ LaunchSpawn
    \/ LaunchSleep
    \/ LaunchTryWait
    \/ LaunchProbe
    \/ LaunchReturn
    \/ ConnectDiscover
    \/ ConnectKill
    \/ HostChanges
    \/ ChildExits

\* The steps of launch_chrome are taken: the process is scheduled.
ConnFairness ==
    /\ WF_vars(LaunchSleep)
    /\ WF_vars(LaunchTryWait)
    /\ WF_vars(LaunchProbe)
    /\ WF_vars(LaunchReturn)

(***************************************************************************)
(* JSON-RPC connection: crates/playwright-core/src/connection.rs           *)
(*                                                                         *)
(* send_message in several tasks, the message loop of run and the          *)
(* transport read task it spawns, over one Connection.  Each step is the   *)
(* code between two awaits.  PipeTransport is not part of the sources:     *)
(* its run is taken to read the pipe into message_rx until the pipe is     *)
(* closed, and its send to write to the pipe.                              *)
(***************************************************************************)
\* The tasks that call send_message, each with its own params.
Callers == 1..MaxCallers

\* Request { id, guid, method, params }: params names the caller.
RpcRequest(id, params) == [id |-> id, params |-> params]

\* Response { id, result, error }: the server answers with the params of the
\* request it answers, as result or as error.
RpcResponse(id, is_error, body) == [id |-> id, is_error |-> is_error, body |-> body]

\* One send_message call: where it is, its id, what it returned.
Call(pc, id, result) == [pc |-> pc, id |-> id, result |-> result]

\* dispatch: the callbacks and the oneshot channels after a response.
Dispatched2(cbs, shots, delivered_to) ==
    [callbacks |-> cbs, oneshot |-> shots, delivered_to |-> delivered_to]

\* A dispatch that completes the oldest pending request, whatever the id.
DispatchToOldest(cbs, shots, response) ==
    IF DOMAIN cbs = {} THEN Dispatched2(cbs, shots, None)
    ELSE LET id == CHOOSE i \in DOMAIN cbs : \A j \in DOMAIN cbs : i <= j
             c  == cbs[id]
             result == IF response.is_error THEN ErrOf(response.body) ELSE OkOf(response.body)
         IN  Dispatched2([i \in (DOMAIN cbs) \ {id} |-> cbs[i]],
                         [shots EXCEPT ![c] = Some(result)], Some(c))

\* Connection::dispatch of a Response: remove(&response.id), then callback.send(result).
Dispatch(cbs, shots, response) ==
    IF response.id \notin DOMAIN cbs THEN Dispatched2(cbs, shots, None)
    ELSE LET c == cbs[response.id]
             result == IF response.is_error THEN ErrOf(response.body) ELSE OkOf(response.body)
         IN  Dispatched2([i \in (DOMAIN cbs) \ {response.id} |-> cbs[i]],
                         [shots EXCEPT ![c] = Some(result)], Some(c))

\* send_message: let id = self.last_id.fetch_add(1, SeqCst); oneshot::channel()
CallStart(c) ==
    /\ calls[c].pc = "idle"
    /\ calls' = [calls EXCEPT ![c] = Call("insert", last_id, None)]
    /\ last_id' = last_id + 1
    /\ UNCHANGED <<callbacks, oneshot, completions, tlock, wire, pipe, rxq, reader, mloop, pipeOpen>>
    /\ RpcFrame

\* self.callbacks.lock().await.insert(id, tx)
CallInsert(c) ==
    /\ calls[c].pc = "insert"
    /\ callbacks' = Insert(callbacks, calls[c].id, c)
    /\ calls' = [calls EXCEPT ![c].pc = "lock"]
    /\ UNCHANGED <<last_id, oneshot, completions, tlock, wire, pipe, rxq, reader, mloop, pipeOpen>>
    /\ RpcFrame

\* self.transport.lock().await
CallLock(c) ==
    /\ calls[c].pc = "lock"
    /\ tlock = "free"
    /\ tlock' = "caller"
    /\ calls' = [calls EXCEPT ![c].pc = "send"]
    /\ UNCHANGED <<last_id, callbacks, oneshot, completions, wire, pipe, rxq, reader, mloop, pipeOpen>>
    /\ RpcFrame

\* .send(request_value).await?: written, or the error returned.
CallSend(c) ==
    /\ calls[c].pc = "send"
    /\ tlock' = "free"
    /\ IF pipeOpen
       THEN /\ wire' = Insert(wire, calls[c].id, RpcRequest(calls[c].id, c))
            /\ calls' = [calls EXCEPT ![c].pc = "await"]
       ELSE /\ wire' = wire
            /\ calls' = [calls EXCEPT ![c] = Call("returned", @.id, Some(ErrOf("transport")))]
    /\ UNCHANGED <<last_id, callbacks, oneshot, completions, pipe, rxq, reader, mloop, pipeOpen>>
    /\ RpcFrame

\* rx.await.map_err(|_| Error::ChannelClosed).and_then(|result| result)
CallReturn(c) ==
    /\ calls[c].pc = "await"
    /\ IsSome(oneshot[c])
    /\ calls' = [calls EXCEPT ![c] = Call("returned", @.id, oneshot[c])]
    /\ UNCHANGED <<last_id, callbacks, oneshot, completions, tlock, wire, pipe, rxq, reader, mloop, pipeOpen>>
    /\ RpcFrame

\* run: tokio::spawn of the transport task, message_rx taken.
RunStart ==
    /\ mloop = "new"
    /\ mloop' = "running"
    /\ reader' = "spawned"
    /\ UNCHANGED <<last_id, callbacks, oneshot, completions, calls, tlock, wire, pipe, rxq, pipeOpen>>
    /\ RpcFrame

\* The transport task: let mut transport = transport.lock().await
ReaderLock ==
    /\ reader = "spawned"
    /\ tlock = "free"
    /\ tlock' = "reader"
    /\ reader' = "reading"
    /\ UNCHANGED <<last_id, callbacks, oneshot, completions, calls, wire, pipe, rxq, mloop, pipeOpen>>
    /\ RpcFrame

\* transport.run(): a message read from the pipe goes to message_rx.
ReaderRead ==
    /\ reader = "reading"
    /\ pipe # <<>>
    /\ rxq' = Append(rxq, Head(pipe))
    /\ pipe' = Tail(pipe)
    /\ UNCHANGED <<last_id, callbacks, oneshot, completions, calls, tlock, wire, reader, mloop, pipeOpen>>
    /\ RpcFrame

\* transport.run() returns at the end of the pipe: the guard is dropped.
ReaderEnd ==
    /\ reader = "reading"
    /\ pipe = <<>>
    /\ ~pipeOpen
    /\ reader' = "ended"
    /\ tlock' = "free"
    /\ UNCHANGED <<last_id, callbacks, oneshot, completions, calls, wire, pipe, rxq, mloop, pipeOpen>>
    /\ RpcFrame

\* while let Some(message_value) = message_rx.recv().await { dispatch }
LoopDispatch ==
    /\ mloop = "running"
    /\ rxq # <<>>
    /\ LET d == Dispatch(callbacks, oneshot, Head(rxq))
       IN  /\ callbacks' = d.callbacks
           /\ oneshot' = d.oneshot
           /\ completions' = IF IsSome(d.delivered_to)
                             THEN [completions EXCEPT ![Unwrap(d.delivered_to)] = @ + 1]
                             ELSE completions
    /\ rxq' = Tail(rxq)
    /\ UNCHANGED <<last_id, calls, tlock, wire, pipe, reader, mloop, pipeOpen>>
    /\ RpcFrame

\* message_rx.recv() gives None: "Message loop ended (transport closed)".
LoopEnd ==
    /\ mloop = "running"
    /\ rxq = <<>>
    /\ reader = "ended"
    /\ mloop' = "ended"
    /\ UNCHANGED <<last_id, callbacks, oneshot, completions, calls, tlock, wire, pipe, rxq, reader, pipeOpen>>
    /\ RpcFrame

\* The server answers a request it has read and not yet answered (its callback
\* is still stored and no answer is on the way), in any order, with a result
\* or an error.
ServerRespond ==
    /\ pipeOpen
    /\ \E id \in DOMAIN wire, is_error \in BOOLEAN :
         /\ \A i \in 1..Len(pipe) : pipe[i].id # id
         /\ \A i \in 1..Len(rxq) : rxq[i].id # id
         /\ id \in DOMAIN callbacks
         /\ pipe' = Append(pipe, RpcResponse(id, is_error, wire[id].params))
    /\ UNCHANGED <<last_id, callbacks, oneshot, completions, calls, tlock, wire, rxq, reader, mloop, pipeOpen>>
    /\ RpcFrame

\* The server answers a request a second time, after the first answer was dispatched.
ServerRepeats ==
    /\ pipeOpen
    /\ Len(pipe) + Len(rxq) < MaxCallers
    /\ \E id \in DOMAIN wire :
         /\ id \notin DOMAIN callbacks
         /\ \A i \in 1..Len(pipe) : pipe[i].id # id
         /\ \A i \in 1..Len(rxq) : rxq[i].id # id
         /\ pipe' = Append(pipe, RpcResponse(id, FALSE, 0))
    /\ UNCHANGED <<last_id, callbacks, oneshot, completions, calls, tlock, wire, rxq, reader, mloop, pipeOpen>>
    /\ RpcFrame

\* The server exits: the pipe is closed.
PipeCloses ==
    /\ pipeOpen
    /\ pipeOpen' = FALSE
    /\ UNCHANGED <<last_id, callbacks, oneshot, completions, calls, tlock, wire, pipe, rxq, reader, mloop>>
    /\ RpcFrame

CallStartStep == \E c \in Callers : CallStart(c)

CallInsertStep == \E c \in Callers : CallInsert(c)

CallLockStep == \E c \in Callers : CallLock(c)

CallSendStep == \E c \in Callers : CallSend(c)

CallReturnStep == \E c \in Callers : CallReturn(c)

RpcIdle ==
    /\ last_id = 0
    /\ callbacks = <<>>
    /\ oneshot = <<>>
    /\ completions = <<>>
    /\ calls = <<>>
    /\ tlock = "free"
    /\ wire = <<>>
    /\ pipe = <<>>
    /\ rxq = <<>>
    /\ reader = "none"
    /\ mloop = "new"
    /\ pipeOpen = FALSE

\* Connection::new
RpcInit ==
    /\ last_id = 0
    /\ callbacks = <<>>
    /\ oneshot = [c \in Callers |-> None]
    /\ completions = [c \in Callers |-> 0]
    /\ calls = [c \in Callers |-> Call("idle", 0, None)]
    /\ tlock = "free"
    /\ wire = <<>>
    /\ pipe = <<>>
    /\ rxq = <<>>
    /\ reader = "none"
    /\ mloop = "new"
    /\ pipeOpen = TRUE

RpcNext ==
    \/ CallStartStep
    \/ CallInsertStep
    \/ CallLockStep
    \/ CallSendStep
    \/ CallReturnStep
    \/ RunStart
    \/ ReaderLock
    \/ ReaderRead
    \/ ReaderEnd
    \/ LoopDispatch
    \/ LoopEnd
    \/ ServerRespond
    \/ ServerRepeats
    \/ PipeCloses

\* The tasks are scheduled and the server answers what it has read.
RpcFairness ==
    /\ \A c \in Callers :
         /\ WF_vars(CallInsert(c))
         /\ WF_vars(CallLock(c))
         /\ WF_vars(CallSend(c))
         /\ WF_vars(CallReturn(c))
    /\ WF_vars(RunStart)
    /\ WF_vars(ReaderLock)
    /\ WF_vars(ReaderRead)
    /\ WF_vars(ReaderEnd)
    /\ WF_vars(LoopDispatch)
    /\ WF_vars(LoopEnd)
    /\ WF_vars(ServerRespond)

(***************************************************************************)
(* Two invocations of the CLI, one after the other, in one workspace and   *)
(* namespace with the same request: crates/cli/src/session/manager.rs      *)
(* (session, acquire_from_descriptor, persist_descriptor_if_needed).       *)
(***************************************************************************)
\* What one invocation did: its manager, its request, the handle or error it
\* got, whether it wrote the descriptor file, and the browser as it found it.
Acquisition(manager, request, handle, wrote, browser_before) ==
    [ manager |-> manager, request |-> request, handle |-> handle,
      wrote |-> wrote, browser_before |-> browser_before ]

\* The first invocation: SessionManager::session(request) in a CLI process.
FirstAcquires ==
    /\ IsNone(rfirst)
    /\ \E has_path \in BOOLEAN, ns \in {None, Some("nsid")}, refresh \in BOOLEAN,
          no_daemon \in BOOLEAN, req \in Requests :
         LET m == SessionManager(has_path, ns, refresh, no_daemon, CliPid(1))
         IN  \E o \in Session(m, req, rdisk, rprocs \cup {CliPid(1)}) :
               /\ rfirst' = Some(Acquisition(m, req, o.handle,
                                   /\ o.file # rdisk
                                   /\ IsSome(o.file)
                                   /\ Unwrap(o.file).pid = CliPid(1),
                                   rbrowser))
               /\ rdisk' = o.file
               /\ rbrowser' = IF o.handle.ok THEN "running" ELSE rbrowser
    /\ rprocs' = rprocs \cup {CliPid(1)}
    /\ UNCHANGED rsecond
    /\ ReuseFrame

\* The first CLI process exits, dropping its session.
FirstExits ==
    /\ IsSome(rfirst)
    /\ CliPid(1) \in rprocs
    /\ rprocs' = rprocs \ {CliPid(1)}
    /\ rbrowser' = DropSession(Unwrap(rfirst).handle, rbrowser)
    /\ UNCHANGED <<rfirst, rsecond, rdisk>>
    /\ ReuseFrame

\* A later invocation in the same workspace and namespace (the same
\* descriptor path and namespace id) with the same request.
SecondAcquires ==
    /\ IsSome(rfirst)
    /\ IsNone(rsecond)
    /\ \E refresh \in BOOLEAN, no_daemon \in BOOLEAN :
         LET m1  == Unwrap(rfirst).manager
             req == Unwrap(rfirst).request
             m   == SessionManager(m1.has_descriptor_path, m1.namespace_id,
                                   refresh, no_daemon, CliPid(2))
         IN  \E o \in Session(m, req, rdisk, rprocs \cup {CliPid(2)}) :
               /\ rsecond' = Some(Acquisition(m, req, o.handle,
                                    /\ o.file # rdisk
                                    /\ IsSome(o.file)
                                    /\ Unwrap(o.file).pid = CliPid(2),
                                    rbrowser))
               /\ rdisk' = o.file
               /\ rbrowser' = IF o.handle.ok THEN "running" ELSE rbrowser
    /\ rprocs' = rprocs \cup {CliPid(2)}
    /\ UNCHANGED rfirst
    /\ ReuseFrame

ReuseInit ==
    /\ rfirst = None
    /\ rsecond = None
    /\ rdisk \in {None, Some(FittingDescriptor)}
    /\ rprocs = {OtherPid}
    /\ rbrowser = "none"

\* The two invocations at rest, for the other specifications.
ReuseIdle ==
    /\ rfirst = None
    /\ rsecond = None
    /\ rdisk = None
    /\ rprocs = {}
    /\ rbrowser = "none"

ReuseNext ==
    \/ FirstAcquires
    \/ FirstExits
    \/ SecondAcquires

(***************************************************************************)
(* auth listen: the WebSocket listener that receives cookies from the      *)
(* browser extension: crates/cli/src/commands/auth.rs                      *)
(*                                                                         *)
(* listen builds one ListenState and hands a clone of it to the handler of *)
(* every connection; the clone shares the Arc of `authenticated`.          *)
(***************************************************************************)
Sockets == 1..MaxSockets

\* The token listen generated, and a token that differs from it.
ListenToken == "token"

Tokens == {ListenToken, "other"}

CookieDomains == {".example.com", "example.com", "b.test"}

\* sanitize_domain: a leading dot is stripped, the other dots become `_`.
SanitizeDomain(domain) ==
    CASE domain = ".example.com" -> "example_com"
      [] domain = "example.com"  -> "example_com"
      [] domain = "b.test"       -> "b_test"

\* One connection: whether it is open, the Hellos it has sent so far (none,
\* only wrong tokens, the listener's token), and the last reply it was sent.
Socket(open, hello, reply) == [open |-> open, hello |-> hello, reply |-> reply]

CookieFiles == { SanitizeDomain(d) : d \in CookieDomains }

\* save_domain_cookies: the directory afterwards; each domain whose to_file
\* succeeded leaves its file, written for the connection whose message it was.
SaveDomainCookies(dir, domains, failing, c) ==
    [ f \in CookieFiles |->
        IF \E d \in domains \ failing : SanitizeDomain(d) = f THEN Some(c) ELSE dir[f] ]

\* A PushCookies handler that asks whether this connection sent the token.
PushAllowedPerSocket(flag, socket) == socket.hello = "valid"

\* The check of the PushCookies arm: the shared flag.
PushAllowed(flag, socket) == flag

\* axum accepts a connection: handle_socket starts with a clone of the state.
SocketUpgrade ==
    /\ \E c \in Sockets :
         /\ ~sockets[c].open
         /\ sockets[c].hello = "none"
         /\ sockets[c].reply = "none"
         /\ sockets' = [sockets EXCEPT ![c] = Socket(TRUE, "none", "none")]
    /\ UNCHANGED <<authenticated, auth_dir, handled>>
    /\ ListenFrame

\* handle_socket, ExtensionMessage::Hello { token }
HandleHello ==
    /\ handled < MaxMessages
    /\ \E c \in Sockets, token \in Tokens :
         /\ sockets[c].open
         /\ IF token = ListenToken
            THEN /\ authenticated' = TRUE
                 /\ sockets' = [sockets EXCEPT ![c] = Socket(TRUE, "valid", "Welcome")]
            ELSE /\ authenticated' = authenticated
                 /\ sockets' = [sockets EXCEPT ![c] =
                                  Socket(TRUE, IF @.hello = "valid" THEN "valid" ELSE "wrong",
                                         "Rejected")]
    /\ handled' = handled + 1
    /\ UNCHANGED auth_dir
    /\ ListenFrame

\* handle_socket, ExtensionMessage::PushCookies { domains }
HandlePushCookies ==
    /\ handled < MaxMessages
    /\ \E c \in Sockets, domains \in SUBSET CookieDomains :
         /\ sockets[c].open
         /\ IF ~PushAllowed(authenticated, sockets[c])
            THEN /\ sockets' = [sockets EXCEPT ![c].reply = "Error"]
                 /\ auth_dir' = auth_dir
            ELSE \E failing \in SUBSET domains :
                   /\ auth_dir' = SaveDomainCookies(auth_dir, domains, failing, c)
                   /\ sockets' = [sockets EXCEPT ![c].reply =
                                    IF failing = {} THEN "Received" ELSE "Error"]
    /\ handled' = handled + 1
    /\ UNCHANGED authenticated
    /\ ListenFrame

\* handle_socket, a text that is not an ExtensionMessage
HandleInvalid ==
    /\ handled < MaxMessages
    /\ \E c \in Sockets :
         /\ sockets[c].open
         /\ sockets' = [sockets EXCEPT ![c].reply = "Error"]
    /\ handled' = handled + 1
    /\ UNCHANGED <<authenticated, auth_dir>>
    /\ ListenFrame

\* handle_socket, Message::Close or a WebSocket error: the loop ends.
SocketClose ==
    /\ \E c \in Sockets :
         /\ sockets[c].open
         /\ sockets' = [sockets EXCEPT ![c].open = FALSE]
    /\ UNCHANGED <<authenticated, auth_dir, handled>>
    /\ ListenFrame

\* listen: the state it builds, before any connection.
ListenInit ==
    /\ authenticated = FALSE
    /\ sockets = [c \in Sockets |-> Socket(FALSE, "none", "none")]
    /\ auth_dir = [f \in CookieFiles |-> None]
    /\ handled = 0

\* No listener, for the other specifications.
ListenIdle ==
    /\ authenticated = FALSE
    /\ sockets = <<>>
    /\ auth_dir = <<>>
    /\ handled = 0

ListenNext ==
    \/ SocketUpgrade
    \/ HandleHello
    \/ HandlePushCookies
    \/ HandleInvalid
    \/ SocketClose

(***************************************************************************)
(* Actions of the envelope specification.                                  *)
(***************************************************************************)
RbNew ==
    /\ rb = None
    /\ \E c \in {"navigate", "har.show"} : rb' = Some(ResultBuilderNew(c))
    /\ emitted' = None
    /\ EnvFrame

RbNoSchemaVersion ==
    /\ rb # None
    /\ IsSome(Unwrap(rb).schema_version)
    /\ rb' = Some(BuilderNoSchemaVersion(Unwrap(rb)))
    /\ UNCHANGED emitted
    /\ EnvFrame

RbInputs ==
    /\ rb # None
    /\ rb' = Some(BuilderInputs(Unwrap(rb), "inputs"))
    /\ UNCHANGED emitted
    /\ EnvFrame

RbData ==
    /\ rb # None
    /\ \E d \in DataValues : rb' = Some(BuilderData(Unwrap(rb), d))
    /\ UNCHANGED emitted
    /\ EnvFrame

RbError ==
    /\ rb # None
    /\ \E c \in BuilderCodes : rb' = Some(BuilderError(Unwrap(rb), c))
    /\ UNCHANGED emitted
    /\ EnvFrame

RbErrorWithDetails ==
    /\ rb # None
    /\ \E c \in BuilderCodes : rb' = Some(BuilderErrorWithDetails(Unwrap(rb), c, "details"))
    /\ UNCHANGED emitted
    /\ EnvFrame

RbArtifact ==
    /\ rb # None
    /\ Len(Unwrap(rb).artifacts) < MaxArtifacts
    /\ \E t \in ArtifactType : rb' = Some(BuilderArtifact(Unwrap(rb), t))
    /\ UNCHANGED emitted
    /\ EnvFrame

RbDiagnostic ==
    /\ rb # None
    /\ Len(Unwrap(rb).diagnostics) < MaxDiagnostics
    /\ \E l \in DiagnosticLevel : rb' = Some(BuilderDiagnostic(Unwrap(rb), l))
    /\ UNCHANGED emitted
    /\ EnvFrame

RbDiagnosticWithSource ==
    /\ rb # None
    /\ Len(Unwrap(rb).diagnostics) < MaxDiagnostics
    /\ \E l \in DiagnosticLevel : rb' = Some(BuilderDiagnosticWithSource(Unwrap(rb), l, "src"))
    /\ UNCHANGED emitted
    /\ EnvFrame

RbConfig ==
    /\ rb # None
    /\ IsNone(Unwrap(rb).config)
    /\ rb' = Some(BuilderConfig(Unwrap(rb), "config"))
    /\ UNCHANGED emitted
    /\ EnvFrame

RbBuild ==
    /\ rb # None
    /\ emitted' = Some(BuilderBuild(Unwrap(rb)))
    /\ rb' = None
    /\ EnvFrame

EmitSuccess ==
    /\ rb = None
    /\ \E d \in DataValues : emitted' = Some(EmitSuccessEnvelope("navigate", "inputs", d))
    /\ UNCHANGED rb
    /\ EnvFrame

PrintFailureWithArtifacts ==
    /\ rb = None
    /\ \E f \in FailureWithArtifacts : emitted' = Some(FailureEnvelope("navigate", f))
    /\ UNCHANGED rb
    /\ EnvFrame

EnvInit ==
    /\ rb = None
    /\ emitted = None

BatchIdle ==
    /\ bpc = "done"
    /\ cur = None
    /\ resp = None
    /\ trace = <<>>
    /\ nRead = 0
    /\ nRequests = 0
    /\ nWritten = 0
    /\ doneBy = None
    /\ ctx_state = ContextStateNew(None, None, None, None, None, TRUE, TRUE, FALSE, 0)
    /\ now = 0

EnvNext ==
    \/ RbNew
    \/ RbNoSchemaVersion
    \/ RbInputs
    \/ RbData
    \/ RbError
    \/ RbErrorWithDetails
    \/ RbArtifact
    \/ RbDiagnostic
    \/ RbDiagnosticWithSource
    \/ RbConfig
    \/ RbBuild
    \/ EmitSuccess
    \/ PrintFailureWithArtifacts

InitEnvelope == EnvInit /\ BatchIdle /\ SessIdle /\ RaceIdle /\ CtxIdle /\ TabIdle /\ SaveIdle /\ ConnIdle /\ RpcIdle /\ ReuseIdle /\ ListenIdle

SpecEnvelope == InitEnvelope /\ [][EnvNext]_vars

InitBatch == BatchInit /\ EnvInit /\ SessIdle /\ RaceIdle /\ CtxIdle /\ TabIdle /\ SaveIdle /\ ConnIdle /\ RpcIdle /\ ReuseIdle /\ ListenIdle

SpecBatch == InitBatch /\ [][BatchNext]_vars

InitSession == SessInit /\ EnvInit /\ BatchIdle /\ RaceIdle /\ CtxIdle /\ TabIdle /\ SaveIdle /\ ConnIdle /\ RpcIdle /\ ReuseIdle /\ ListenIdle

SpecSession == InitSession /\ [][SessNext]_vars

InitRace == RaceInit /\ EnvInit /\ BatchIdle /\ SessIdle /\ CtxIdle /\ TabIdle /\ SaveIdle /\ ConnIdle /\ RpcIdle /\ ReuseIdle /\ ListenIdle

SpecRace == InitRace /\ [][RaceNext]_vars

InitContext == CtxInit /\ EnvInit /\ BatchIdle /\ SessIdle /\ RaceIdle /\ TabIdle /\ SaveIdle /\ ConnIdle /\ RpcIdle /\ ReuseIdle /\ ListenIdle

SpecContext == InitContext /\ [][CtxNext]_vars

InitTabs == TabInit /\ EnvInit /\ BatchIdle /\ SessIdle /\ RaceIdle /\ CtxIdle /\ SaveIdle /\ ConnIdle /\ RpcIdle /\ ReuseIdle /\ ListenIdle

SpecTabs == InitTabs /\ [][TabNext]_vars

InitPersist == SaveInit /\ EnvInit /\ BatchIdle /\ SessIdle /\ RaceIdle /\ CtxIdle /\ TabIdle /\ ConnIdle /\ RpcIdle /\ ReuseIdle /\ ListenIdle

SpecPersist == InitPersist /\ [][SaveNext]_vars

InitConnect == ConnInit /\ EnvInit /\ BatchIdle /\ SessIdle /\ RaceIdle /\ CtxIdle /\ TabIdle /\ SaveIdle /\ RpcIdle /\ ReuseIdle /\ ListenIdle

SpecConnect == InitConnect /\ [][ConnNext]_vars

InitRpc == RpcInit /\ EnvInit /\ BatchIdle /\ SessIdle /\ RaceIdle /\ CtxIdle /\ TabIdle /\ SaveIdle /\ ConnIdle /\ ReuseIdle /\ ListenIdle

SpecRpc == InitRpc /\ [][RpcNext]_vars

InitReuse == ReuseInit /\ EnvInit /\ BatchIdle /\ SessIdle /\ RaceIdle /\ CtxIdle /\ TabIdle /\ SaveIdle /\ ConnIdle /\ RpcIdle /\ ListenIdle

SpecReuse == InitReuse /\ [][ReuseNext]_vars

InitListen == ListenInit /\ EnvInit /\ BatchIdle /\ SessIdle /\ RaceIdle /\ CtxIdle /\ TabIdle /\ SaveIdle /\ ConnIdle /\ RpcIdle /\ ReuseIdle

SpecListen == InitListen /\ [][ListenNext]_vars

SpecRpcFair == SpecRpc /\ RpcFairness

SpecConnectFair == SpecConnect /\ ConnFairness

(***************************************************************************)
(* C1: every envelope produced by build or by the failure-with-artifacts   *)
(* path has ok = TRUE exactly when data is present and error is absent.    *)
(***************************************************************************)
EnvelopeInvariant ==
    IsSome(emitted) =>
        LET E == Unwrap(emitted)
        IN  E.ok <=> (IsSome(E.data) /\ IsNone(E.error))

\* A built envelope with ok = TRUE that went through several setters.
EnvelopeOkWitness ==
    /\ IsSome(emitted)
    /\ Unwrap(emitted).via = "build"
    /\ Unwrap(emitted).ok
    /\ Len(Unwrap(emitted).artifacts) > 0
    /\ Len(Unwrap(emitted).diagnostics) > 0

(***************************************************************************)
(* C2: if ok then data present and error absent; otherwise data absent and *)
(* error present, for every sequence of setter calls followed by build.    *)
(***************************************************************************)
EnvelopeStrictInvariant ==
    IsSome(emitted) =>
        LET E == Unwrap(emitted)
        IN  IF E.ok
            THEN IsSome(E.data) /\ IsNone(E.error)
            ELSE IsNone(E.data) /\ IsSome(E.error)

(***************************************************************************)
(* C3: every non-blank input line of the batch loop produces exactly one   *)
(* NDJSON response line, and a whitespace-only line produces none: between *)
(* requests the lines written equal the requests read, and while a request *)
(* is being processed exactly its own response is outstanding.             *)
(***************************************************************************)
OneResponsePerLine ==
    /\ bpc \in {"read", "done"} => nWritten = nRequests
    /\ bpc \in {"dispatch", "write"} => nWritten + 1 = nRequests

\* A finished run that read a blank line among two requests.
OneResponsePerLineWitness ==
    /\ bpc = "done"
    /\ nRead = 3
    /\ nRequests = 2
    /\ nWritten = 2

\* Whether a line, taken on its own, is a request that succeeds.
WouldSucceed(line) ==
    /\ line.kind = "request"
    /\ \/ IsQuit(line)
       \/ /\ \E e \in Catalog : line.command \in e.names /\ e.batch
                                  /\ ~e.interactive /\ ~e.INTERACTIVE_ONLY
          /\ line.args = "good"

(***************************************************************************)
(* C4: a failing request gets an error response for itself only: every     *)
(* response is a success exactly when its own request would succeed, it    *)
(* carries the id of its request, and after the response of a failed       *)
(* request is written the loop goes back to reading.                       *)
(***************************************************************************)
BatchIsolation ==
    /\ [](bpc = "write" =>
            /\ Unwrap(resp).ok <=> WouldSucceed(Unwrap(cur))
            /\ Unwrap(cur).kind = "request" => Unwrap(resp).id = RequestId(nRead)
            /\ Unwrap(resp).ok <=> IsNone(Unwrap(resp).error))
    /\ [][(bpc = "write" /\ bpc' # "write" /\ ~Unwrap(resp).ok) => bpc' = "read"]_vars

\* The third request succeeds although an earlier one failed.
BatchIsolationWitness ==
    /\ bpc = "write"
    /\ nRequests = 3
    /\ Unwrap(resp).ok
    /\ Unwrap(cur).kind = "request"
    /\ Unwrap(cur).command = "navigate"
    /\ IsSome(Cached(ctx_state))
    /\ Unwrap(Cached(ctx_state)).last_url = Some("https://u1")
    /\ Unwrap(Cached(ctx_state)).last_selector = None

(***************************************************************************)
(* C5: requests are processed strictly in input order without overlap: a   *)
(* line is read only when no request is being processed and every response *)
(* of an earlier request has been written.                                 *)
(***************************************************************************)
StrictlySequential ==
    [][nRead' # nRead =>
         /\ bpc = "read"
         /\ cur = None
         /\ resp = None
         /\ nWritten = nRequests
         /\ nRead' = nRead + 1]_vars

\* The second request has been read after the first response was written.
StrictlySequentialWitness ==
    /\ bpc = "dispatch"
    /\ nRead = 2
    /\ nRequests = 2
    /\ nWritten = 1

(***************************************************************************)
(* C6: quit gets exactly one response and ends the loop: once the loop has *)
(* ended nothing more is read, dispatched or written, and a loop ended by  *)
(* quit has written one response per request, the last one for quit.       *)
(***************************************************************************)
QuitTerminates ==
    /\ [](doneBy = Some("quit") => bpc = "done" /\ nWritten = nRequests /\ nRequests >= 1)
    /\ []((bpc = "write" /\ IsQuit(Unwrap(cur))) =>
            Unwrap(resp).command = "quit" /\ nWritten + 1 = nRequests)
    /\ [][(bpc = "write" /\ IsQuit(Unwrap(cur)) /\ bpc' # "write") =>
            (bpc' = "done" /\ doneBy' = Some("quit"))]_vars
    /\ [][bpc = "done" => UNCHANGED batchVars]_vars

\* The loop was ended by quit although stdin could have held more lines.
QuitTerminatesWitness ==
    /\ doneBy = Some("quit")
    /\ nRead = 2
    /\ nRead < MaxLines

\* Whether the catalog entry named by a request line is closed to batch mode.
Gated(line) ==
    /\ line.kind = "request"
    /\ \E e \in Catalog :
         line.command \in e.names /\ (e.interactive \/ e.INTERACTIVE_ONLY \/ ~e.batch)

(***************************************************************************)
(* C7: in batch mode a command whose catalog entry is interactive-only or  *)
(* not batch-enabled fails with unsupported-mode and the canonical command *)
(* name, whatever its args, and none of deserialize, validate_mode,        *)
(* resolve and execute has run.                                            *)
(***************************************************************************)
ModeGatingFirst ==
    (bpc = "write" /\ Gated(Unwrap(cur))) =>
        /\ ~Unwrap(resp).ok
        /\ Unwrap(resp).error = Some("UNSUPPORTED_MODE")
        /\ Unwrap(resp).command = CommandName(Unwrap(LookupCommand(Unwrap(cur).command)))
        /\ trace = <<>>

\* auth-login (an alias of an interactive-only command) with args that would
\* not deserialize has been rejected.
ModeGatingFirstWitness ==
    /\ bpc = "write"
    /\ Unwrap(cur).kind = "request"
    /\ Unwrap(cur).command = "auth-login"
    /\ Unwrap(cur).args = "undeserializable"
    /\ Unwrap(resp).command = "auth.login"

(***************************************************************************)
(* C8: in the batch loop the cached URL, selector, output path and         *)
(* last-used timestamp change only by applying the delta returned by a     *)
(* successfully executed command; a request that fails leaves them as they *)
(* were.                                                                   *)
(***************************************************************************)
ContextChangesOnlyByDelta ==
    [][/\ Cached(ctx_state') # Cached(ctx_state) =>
            /\ bpc = "dispatch"
            /\ bpc' = "write"
            /\ Unwrap(resp').ok
            /\ \E delta \in Deltas : ctx_state' = ApplyDelta(ctx_state, delta, now)
       /\ (bpc = "dispatch" /\ bpc' = "write" /\ ~Unwrap(resp').ok) =>
            ctx_state' = ctx_state]_vars

\* A failed request is about to be answered after an earlier success cached
\* a URL and a selector at time 1.
ContextChangesOnlyByDeltaWitness ==
    /\ bpc = "write"
    /\ ~Unwrap(resp).ok
    /\ Unwrap(resp).error = Some("TIMEOUT")
    /\ IsSome(Cached(ctx_state))
    /\ Unwrap(Cached(ctx_state)).last_url = Some("https://u1")
    /\ Unwrap(Cached(ctx_state)).last_selector = Some("#s1")
    /\ Unwrap(Cached(ctx_state)).last_used_at = Some(1)

(***************************************************************************)
(* Session manager claims.                                                 *)
(***************************************************************************)
\* Whether an acquisition went through the named step.
Attempted(handle, step) == \E i \in DOMAIN handle.steps : handle.steps[i] = step

\* C9: an acquisition returns source cached-descriptor only if refresh is
\* not set, a descriptor path is present, and the descriptor on disk when it
\* ran belongs to the current workspace and namespace, matches the request's
\* browser kind, headless flag, CDP endpoint (when the request gives one) and
\* driver hash, names a live process and carries an endpoint; the session is
\* then attached to that endpoint with keep-running on, and neither a daemon
\* lease nor the primary strategy was attempted.
CachedDescriptorOnlyIfUsable ==
    [][ (IsNone(acq) /\ IsSome(acq') /\ Unwrap(acq').handle.source = "CachedDescriptor")
        => /\ IsSome(mgr)
           /\ ~Unwrap(mgr).refresh
           /\ Unwrap(mgr).has_descriptor_path
           /\ IsSome(disk)
           /\ disk' = disk
           /\ LET d   == Unwrap(disk)
                  req == Unwrap(acq').request
                  h   == Unwrap(acq').handle
              IN  /\ d.workspace_id = Some(CtxWorkspaceId)
                  /\ d.namespace = Some(CtxNamespace)
                  /\ d.browser = req.browser
                  /\ d.headless = req.headless
                  /\ IsSome(req.cdp_endpoint) => d.cdp_endpoint = req.cdp_endpoint
                  /\ d.driver_hash = Some(DRIVER_HASH)
                  /\ d.pid \in procs
                  /\ IsSome(d.cdp_endpoint) \/ IsSome(d.ws_endpoint)
                  /\ h.endpoint = (IF IsSome(d.cdp_endpoint) THEN d.cdp_endpoint
                                                             ELSE d.ws_endpoint)
                  /\ h.keep_browser_running
                  /\ ~Attempted(h, "daemon")
                  /\ ~Attempted(h, "primary") ]_vars

\* A request that does not ask to keep the browser running, and that the
\* daemon could have served, was answered from the descriptor.
CachedDescriptorOnlyIfUsableWitness ==
    /\ IsSome(acq)
    /\ IsSome(mgr)
    /\ Unwrap(acq).handle.source = "CachedDescriptor"
    /\ Unwrap(acq).handle.keep_browser_running
    /\ ~Unwrap(acq).request.keep_browser_running
    /\ ~Unwrap(mgr).no_daemon
    /\ IsSome(Unwrap(mgr).namespace_id)
    /\ IsNone(Unwrap(acq).request.cdp_endpoint)

\* C10: when refresh is set, the acquisition's source is never
\* cached-descriptor, and after it the descriptor file of the profile is
\* either absent or was written by this acquisition.
RefreshClearsDescriptor ==
    (IsSome(mgr) /\ IsSome(acq) /\ Unwrap(mgr).refresh)
    => /\ Unwrap(acq).handle.source # "CachedDescriptor"
       /\ (Unwrap(mgr).has_descriptor_path /\ IsSome(disk))
            => Attempted(Unwrap(acq).handle, "persist")

\* An acquisition that got as far as the daemon step: it did not end at the
\* auth file and did not attach to the descriptor's endpoint.
ReachedDaemonStep(h) ==
    /\ ~(~h.ok /\ h.steps = <<"load_auth">>)
    /\ ~Attempted(h, "attach")

\* C11: a daemon lease is requested only when no-daemon is unset and the
\* request carries no CDP endpoint; when a lease is granted the acquisition
\* attaches to the leased endpoint, a session it returns has source daemon,
\* and the primary strategy is not executed; when the daemon step grants no
\* lease the primary strategy is executed.
DaemonLeaseOrPrimary ==
    (IsSome(mgr) /\ IsSome(acq))
    => LET m   == Unwrap(mgr)
           req == Unwrap(acq).request
           h   == Unwrap(acq).handle
       IN  /\ Attempted(h, "daemon") => (~m.no_daemon /\ IsNone(req.cdp_endpoint))
           /\ Attempted(h, "lease")
                => /\ Attempted(h, "daemon")
                   /\ Attempted(h, "attach_lease")
                   /\ ~Attempted(h, "primary")
                   /\ h.ok => (h.source = "Daemon" /\ h.endpoint = Some("daemonEp"))
           /\ (ReachedDaemonStep(h) /\ ~Attempted(h, "lease"))
                => /\ Attempted(h, "primary")
                   /\ ~Attempted(h, "attach_lease")
                   /\ h.source # "Daemon"

\* A lease was granted to a request whose primary strategy would have been
\* persistent-debug, and the session came from the daemon.
DaemonLeaseOrPrimaryWitness ==
    /\ IsSome(acq)
    /\ Unwrap(acq).handle.ok
    /\ Unwrap(acq).handle.source = "Daemon"
    /\ Attempted(Unwrap(acq).handle, "lease")
    /\ IsSome(Unwrap(acq).request.remote_debugging_port)

\* The step at which an acquisition ended.
LastStep(h) == IF h.steps = <<>> THEN "none" ELSE h.steps[Len(h.steps)]

\* C12: a failure of the descriptor-reuse step or of the daemon-lease step
\* never fails the acquisition by itself: no acquisition ends in an error at
\* the attach to a descriptor's endpoint or at the attach to a leased
\* endpoint.
CascadeRecovers ==
    IsSome(acq)
    => ~( /\ ~Unwrap(acq).handle.ok
          /\ LastStep(Unwrap(acq).handle) \in {"attach", "attach_lease"} )

\* C13: an acquisition that returns an error has written no descriptor (the
\* file is as before, or removed by the refresh), and a successful one has
\* written at most one, as its last step.
DescriptorWrittenOnlyOnSuccess ==
    [][ (IsNone(acq) /\ IsSome(acq'))
        => LET h == Unwrap(acq').handle
           IN  /\ ~h.ok => (~Attempted(h, "persist") /\ (disk' = disk \/ disk' = None))
               /\ h.ok => /\ Cardinality({i \in DOMAIN h.steps : h.steps[i] = "persist"}) <= 1
                          /\ Attempted(h, "persist") => LastStep(h) = "persist"
                          /\ (disk' # disk /\ disk' # None) => Attempted(h, "persist") ]_vars

\* An acquisition with descriptor persistence enabled got its session and
\* then failed at the auth injection.
DescriptorWrittenOnlyOnSuccessWitness ==
    /\ IsSome(acq)
    /\ IsSome(mgr)
    /\ Unwrap(mgr).has_descriptor_path
    /\ ~Unwrap(acq).handle.ok
    /\ LastStep(Unwrap(acq).handle) = "inject"

\* C14: a session attached to an already-running browser (explicit CDP
\* endpoint, daemon lease or cached descriptor) has keep_browser_running set,
\* and the exit of the CLI leaves that browser running; a freshly launched
\* browser has it unset and is closed when the CLI exits and drops the session.
AttachedBrowserOutlivesCli ==
    /\ [] ( (IsSome(acq) /\ Unwrap(acq).handle.ok)
            => LET h == Unwrap(acq).handle
               IN  /\ h.source \in {"CdpConnect", "Daemon", "CachedDescriptor"}
                        => h.keep_browser_running
                   /\ h.source = "Fresh" => ~h.keep_browser_running )
    /\ [][ (IsSome(acq) /\ Unwrap(acq).handle.ok /\ IsNone(mgr'))
           => LET h == Unwrap(acq).handle
              IN  /\ h.source \in {"CdpConnect", "Daemon", "CachedDescriptor"}
                       => browserState' = "running"
                  /\ h.source = "Fresh" => browserState' = "closed" ]_vars

\* A run that attached to an explicit CDP endpoint, with a request that did
\* not ask to keep the browser, has exited and the browser is running.
AttachedBrowserOutlivesCliWitness ==
    /\ IsNone(mgr)
    /\ invocations > 0
    /\ browserState = "running"

\* C15: project auth files are injected only by an acquisition that attached
\* to an explicit CDP endpoint or to a daemon lease, for a request without an
\* auth file; and every such acquisition that got its session injects them
\* (unless the project has none).
AutoInjectOnlyWhenAttached ==
    IsSome(acq)
    => LET req == Unwrap(acq).request
           h   == Unwrap(acq).handle
       IN  /\ Attempted(h, "inject")
                => /\ IsNone(req.auth_file)
                   /\ Attempted(h, "connect") \/ Attempted(h, "attach_lease")
                   /\ ~Attempted(h, "launch")
                   /\ h.ok => h.source \in {"CdpConnect", "Daemon"}
           /\ (h.ok /\ h.source \in {"CdpConnect", "Daemon"} /\ IsNone(req.auth_file))
                => Attempted(h, "inject") \/ Attempted(h, "no_auth_files")
           /\ (h.ok /\ ~(h.source \in {"CdpConnect", "Daemon"} /\ IsNone(req.auth_file)))
                => ~Attempted(h, "inject") /\ ~Attempted(h, "no_auth_files")

\* A session leased from the daemon had the project auth files injected.
AutoInjectOnlyWhenAttachedWitness ==
    /\ IsSome(acq)
    /\ Unwrap(acq).handle.ok
    /\ Unwrap(acq).handle.source = "Daemon"
    /\ Attempted(Unwrap(acq).handle, "inject")

\* Whether an acquisition invoked a browser operation: an attach to a
\* descriptor, lease or CDP endpoint, or a launch.
TouchedBrowser(h) ==
    \/ Attempted(h, "attach")
    \/ Attempted(h, "attach_lease")
    \/ Attempted(h, "connect")
    \/ Attempted(h, "launch")

\* C16 as stated: whenever the request has a remote-debugging port and no CDP
\* endpoint (primary strategy persistent-debug) and the browser is not
\* Chromium, the acquisition returns an error, no browser is launched or
\* attached, and no descriptor is written.
PersistentDebugRequiresChromium ==
    (IsSome(acq)
        /\ IsSome(Unwrap(acq).request.remote_debugging_port)
        /\ IsNone(Unwrap(acq).request.cdp_endpoint)
        /\ Unwrap(acq).request.browser # "chromium")
    => /\ ~Unwrap(acq).handle.ok
       /\ ~TouchedBrowser(Unwrap(acq).handle)
       /\ ~Attempted(Unwrap(acq).handle, "persist")

\* C16, amended: the same, for the acquisitions that execute the primary
\* strategy (no session from the descriptor, no daemon lease granted).
PersistentDebugRequiresChromiumWhenExecuted ==
    (IsSome(acq)
        /\ IsSome(Unwrap(acq).request.remote_debugging_port)
        /\ IsNone(Unwrap(acq).request.cdp_endpoint)
        /\ Unwrap(acq).request.browser # "chromium"
        /\ Attempted(Unwrap(acq).handle, "primary"))
    => /\ ~Unwrap(acq).handle.ok
       /\ LastStep(Unwrap(acq).handle) = "primary"
       /\ ~TouchedBrowser(Unwrap(acq).handle)
       /\ ~Attempted(Unwrap(acq).handle, "persist")

\* A firefox request with a remote-debugging port reached the primary strategy.
PersistentDebugRequiresChromiumWitness ==
    /\ IsSome(acq)
    /\ IsSome(Unwrap(acq).request.remote_debugging_port)
    /\ IsNone(Unwrap(acq).request.cdp_endpoint)
    /\ Unwrap(acq).request.browser = "firefox"
    /\ Attempted(Unwrap(acq).handle, "primary")
    /\ ~Unwrap(acq).handle.ok

(***************************************************************************)
(* Session management claims.                                              *)
(***************************************************************************)
\* C17: when session.stop runs on a descriptor that carries an endpoint and
\* completes, it has attached to that endpoint, closed the browser and
\* deleted the descriptor: the descriptor file no longer exists.
StopRemovesDescriptor ==
    [][ (/\ IsSome(mgr) /\ IsSome(cmd') /\ cmd' # cmd
         /\ Unwrap(cmd').op = "stop" /\ Unwrap(cmd').ok
         /\ Unwrap(mgr).has_descriptor_path
         /\ IsSome(disk)
         /\ IsSome(disk[1].cdp_endpoint) \/ IsSome(disk[1].ws_endpoint))
        => LET r == Unwrap(cmd')
               d == Unwrap(disk)
           IN  /\ r.flag
               /\ Attempted(r, "attach") \/ Attempted(r, "connect")
               /\ r.endpoint = (IF IsSome(d.cdp_endpoint) THEN d.cdp_endpoint
                                                          ELSE d.ws_endpoint)
               /\ Attempted(r, "close")
               /\ LastStep(r) = "clear"
               /\ browserState' = "closed"
               /\ disk' = None ]_vars

\* session.stop reported stopped=true after attaching through the primary
\* strategy, and the descriptor file is gone.
StopRemovesDescriptorWitness ==
    /\ IsSome(cmd)
    /\ Unwrap(cmd).op = "stop"
    /\ Unwrap(cmd).ok
    /\ Unwrap(cmd).flag
    /\ Attempted(Unwrap(cmd), "connect")
    /\ browserState = "closed"
    /\ disk = None

\* C18: session.stop on a descriptor with neither a CDP nor a WebSocket
\* endpoint touches no browser and removes the descriptor: it answers
\* stopped=false with the message "Descriptor missing endpoint; removed
\* descriptor" and no descriptor file is left; it fails only if the removal
\* of the file itself fails.
StopWithoutEndpointRemovesDescriptor ==
    [][ (/\ IsSome(mgr) /\ IsSome(cmd') /\ cmd' # cmd
         /\ Unwrap(cmd').op = "stop"
         /\ Unwrap(mgr).has_descriptor_path
         /\ IsSome(disk)
         /\ IsNone(disk[1].cdp_endpoint) /\ IsNone(disk[1].ws_endpoint))
        => LET r == Unwrap(cmd')
           IN  /\ r.steps = <<"clear">>
               /\ IsNone(r.endpoint)
               /\ browserState' = browserState
               /\ r.ok => /\ ~r.flag
                          /\ r.message = "Descriptor missing endpoint; removed descriptor"
                          /\ disk' = None
               /\ ~r.ok => disk' = disk ]_vars

\* session.stop answered "Descriptor missing endpoint; removed descriptor".
StopWithoutEndpointRemovesDescriptorWitness ==
    /\ IsSome(cmd)
    /\ Unwrap(cmd).op = "stop"
    /\ Unwrap(cmd).ok
    /\ ~Unwrap(cmd).flag
    /\ Unwrap(cmd).message = "Descriptor missing endpoint; removed descriptor"
    /\ disk = None
    /\ browserState = "none"

\* C19: session.clear removes a present descriptor (cleared=true) and
\* succeeds with cleared=false on an absent one, so a repeated clear is not
\* an error; after a clear the descriptor is absent and session.status would
\* report active=false; session.status reports active exactly when the
\* descriptor is present; and an absent descriptor appears only when an
\* acquisition writes it.
ClearIsIdempotent ==
    /\ [][ (/\ IsSome(mgr) /\ IsSome(cmd') /\ cmd' # cmd
            /\ Unwrap(cmd').op = "clear"
            /\ Unwrap(mgr).has_descriptor_path)
           => LET r == Unwrap(cmd')
              IN  /\ IsSome(disk) => /\ r.ok => (r.flag /\ disk' = None)
                                     /\ ~r.ok => disk' = disk
                  /\ IsNone(disk) => (r.ok /\ ~r.flag /\ disk' = None) ]_vars
    /\ [] ( (/\ IsSome(mgr) /\ IsSome(cmd)
             /\ Unwrap(cmd).op = "clear" /\ Unwrap(cmd).ok
             /\ Unwrap(mgr).has_descriptor_path)
            => /\ disk = None
               /\ ~DescriptorStatus(Unwrap(mgr), disk, procs).flag )
    /\ [][ (/\ IsSome(mgr) /\ IsSome(cmd') /\ cmd' # cmd
            /\ Unwrap(cmd').op = "status")
           => /\ Unwrap(cmd').ok
              /\ Unwrap(cmd').flag <=> (Unwrap(mgr).has_descriptor_path /\ IsSome(disk))
              /\ disk' = disk ]_vars
    /\ [][ (disk = None /\ disk' # None)
           => /\ IsNone(acq) /\ IsSome(acq')
              /\ Attempted(Unwrap(acq').handle, "persist") ]_vars

\* A second session.clear in a row found no descriptor and said cleared=false.
ClearIsIdempotentWitness ==
    /\ IsSome(cmd)
    /\ IsSome(mgr)
    /\ Unwrap(mgr).has_descriptor_path
    /\ Unwrap(cmd).op = "clear"
    /\ Unwrap(cmd).ok
    /\ ~Unwrap(cmd).flag
    /\ Unwrap(cmd).message = "No session descriptor found"
    /\ disk = None

(***************************************************************************)
(* Descriptor file under concurrent invocations.                           *)
(***************************************************************************)
\* The descriptor invocation p writes: every field from p's own run.
OwnDescriptor(p) ==
    [ pid          |-> CliPid(p),
      browser      |-> writers[p].req.browser,
      headless     |-> writers[p].req.headless,
      cdp_endpoint |-> writers[p].session.cdp,
      ws_endpoint  |-> writers[p].session.ws,
      workspace_id |-> Some(CtxWorkspaceId),
      namespace    |-> Some(CtxNamespace),
      session_key  |-> Some("ctx-key"),
      driver_hash  |-> Some(DRIVER_HASH) ]

AllWritersDone == \A p \in Writers : writers[p].pc = "done"

\* C20: under any interleaving of concurrent invocations on one (workspace,
\* namespace) a complete descriptor file is always the descriptor of one
\* writer (or the one there before), never a mixture; once all invocations
\* have finished the file is absent, or untouched, or complete and exactly
\* the descriptor of the invocation whose save finished last.
LastWriterWins ==
    (writers # <<>>)
    => /\ (IsSome(descriptorFile) /\ Unwrap(descriptorFile).complete)
            => \/ descriptorFile = CompleteFile(FittingDescriptor)
               \/ \E p \in Writers : descriptorFile = CompleteFile(OwnDescriptor(p))
       /\ AllWritersDone
            => \/ descriptorFile = None
               \/ lastWriter = 0 /\ descriptorFile = CompleteFile(FittingDescriptor)
               \/ /\ lastWriter \in Writers
                  /\ descriptorFile = CompleteFile(OwnDescriptor(lastWriter))

\* Two invocations with different endpoints raced; the first one's save
\* finished last and its descriptor is the one at rest.
LastWriterWinsWitness ==
    /\ writers # <<>>
    /\ AllWritersDone
    /\ lastWriter = 1
    /\ writers[1].req.cdp_endpoint # writers[2].req.cdp_endpoint
    /\ descriptorFile = CompleteFile(OwnDescriptor(1))

(***************************************************************************)
(* Context store claims.                                                   *)
(***************************************************************************)
\* The runs a reload can be: every way ContextState::new can be called on
\* the two files as they are now.
Reloads ==
    { ContextStateNew(globalDisk, projectDisk, project_root, requested, None,
                      FALSE, FALSE, FALSE, ctime) :
        project_root \in {None, Some(ProjectRoot)},
        requested \in {None, Some("default"), Some("work")} }

\* The stored contexts of the project store of a state.
ProjectEntries(cs) ==
    IF IsSome(cs.stores.project)
    THEN { Unwrap(cs.stores.project).contexts[n] : n \in DOMAIN Unwrap(cs.stores.project).contexts }
    ELSE {}

ConnectShowsLastSet ==
    IsSome(cstate)
    => CdpEndpoint(Unwrap(cstate)) =
         IF Unwrap(cstate).no_context THEN None ELSE wantCdp

\* C22 witness: a second run, after two operations that left nothing but
\* an endpoint, reports the endpoint that was saved.
ConnectShowsLastSetWitness ==
    /\ IsSome(cstate)
    /\ crun.n = 2
    /\ crun.ops = 2
    /\ clog.op = "none"
    /\ ~Unwrap(cstate).no_context
    /\ wantCdp = Some("ws://e1")
    /\ CdpEndpoint(Unwrap(cstate)) = Some("ws://e1")
    /\ Unwrap(Unwrap(cstate).selected).data.last_url = None
    /\ Unwrap(Unwrap(cstate).selected).data.protected_urls = <<>>

\* C23: in a run started with --no-save no context-store operation
\* (apply_delta, set_cdp_endpoint, add_protected, remove_protected, persist)
\* changes the in-memory context state or either context-store file.
NoSaveDisablesMutations ==
    [][(IsSome(cstate) /\ Unwrap(cstate).no_save)
         => /\ globalDisk' = globalDisk
            /\ projectDisk' = projectDisk
            /\ IsSome(cstate') => cstate' = cstate]_vars

\* C23 witness: a --no-save run with a selected context has called two
\* of the mutating operations and then persist.
NoSaveDisablesMutationsWitness ==
    /\ IsSome(cstate)
    /\ Unwrap(cstate).no_save
    /\ ~Unwrap(cstate).no_context
    /\ crun.n = 1
    /\ crun.ops = 2
    /\ clog.op = "persist"

\* The selectors a command is given and falls back to.
ProvidedSelectors == {None, Some("#provided")}

FallbackSelectors == {None, Some("#fallback")}

\* C24: in a run started with --no-context every read behaves as if the
\* store were empty (cdp_endpoint and last_url absent, has_context_url
\* false, protected list empty, resolve_selector gives the provided
\* selector, else the fallback, else an error, resolve_output gives the
\* provided path, else the default one), and no operation changes the
\* context state or a context-store file.
NoContextDisablesStore ==
    /\ [](( IsSome(cstate) /\ Unwrap(cstate).no_context )
          => /\ CdpEndpoint(Unwrap(cstate)) = None
             /\ LastUrl(Unwrap(cstate)) = None
             /\ ~HasContextUrl(Unwrap(cstate))
             /\ ProtectedUrls(Unwrap(cstate)) = <<>>
             /\ \A url \in {<<"a">>, <<"A", "b">>, <<>>} : ~IsProtected(Unwrap(cstate), url)
             /\ \A provided \in ProvidedSelectors, fallback \in FallbackSelectors :
                  ResolveSelector(Unwrap(cstate), provided, fallback) =
                    IF IsSome(provided) THEN SelectorOk(Unwrap(provided))
                    ELSE IF IsSome(fallback) THEN SelectorOk(Unwrap(fallback))
                    ELSE SelectorErr("Selector is required when context usage is disabled")
             /\ ResolveOutput(Unwrap(cstate), None) = ScreenshotPath("screenshot.png")
             /\ ResolveOutput(Unwrap(cstate), Some("given.png")) = ScreenshotPath("given.png"))
    /\ [][(IsSome(cstate) /\ Unwrap(cstate).no_context)
            => /\ globalDisk' = globalDisk
               /\ projectDisk' = projectDisk
               /\ IsSome(cstate') => cstate' = cstate]_vars

\* C24 witness: a --no-context run over a global file that holds an
\* endpoint has called a mutating operation and persist.
NoContextDisablesStoreWitness ==
    /\ IsSome(cstate)
    /\ Unwrap(cstate).no_context
    /\ crun.n = 2
    /\ crun.ops = 2
    /\ clog.op = "persist"
    /\ ContainsKey(StoreLoad(globalDisk).contexts, "default")
    /\ StoreLoad(globalDisk).contexts["default"].cdp_endpoint = Some("ws://e1")

\* The context of this run was loaded more than 3600 s after it was last used.
LoadedStale ==
    /\ IsSome(crun.loaded_used)
    /\ crun.loaded_at > Unwrap(crun.loaded_used) + 3600

\* C25: a context loaded with now - last_used_at > 3600 s is marked
\* refresh-requested and, if its only URL is the cached last-url (no
\* base-url, no base-url override), has_context_url() is false; a context
\* loaded with now - last_used_at <= 3600 s (or never used) and without
\* --refresh has has_context_url() true whenever a last-url is cached.
StaleContextHasNoUrl ==
    (IsSome(cstate) /\ IsSome(Unwrap(cstate).selected))
    => LET cs == Unwrap(cstate)
           data == Unwrap(cs.selected).data
       IN  /\ LoadedStale
                => /\ RefreshRequested(cs)
                   /\ (IsNone(data.base_url) /\ IsNone(cs.base_url_override))
                        => ~HasContextUrl(cs)
           /\ (~LoadedStale /\ ~crun.refresh_flag)
                => /\ ~RefreshRequested(cs)
                   /\ IsSome(data.last_url) => HasContextUrl(cs)

\* C25 witness: a run loaded, 3601 s after its last use, a context whose
\* only URL is the cached one.
StaleContextHasNoUrlWitness ==
    /\ IsSome(cstate)
    /\ IsSome(Unwrap(cstate).selected)
    /\ crun.loaded_used = Some(0)
    /\ crun.loaded_at = 3601
    /\ ~crun.refresh_flag
    /\ Unwrap(Unwrap(cstate).selected).data.last_url = Some("https://u1")
    /\ IsNone(Unwrap(Unwrap(cstate).selected).data.base_url)
    /\ ~HasContextUrl(Unwrap(cstate))

\* While refresh is requested resolve_selector gives the provided selector,
\* else the fallback, else an error, and resolve_output gives the provided
\* path, else the default one: neither gives a cached value.
RefreshDiscardsSelectorAndOutput ==
    (IsSome(cstate) /\ RefreshRequested(Unwrap(cstate)))
    => /\ \A provided \in ProvidedSelectors, fallback \in FallbackSelectors :
            LET r == ResolveSelector(Unwrap(cstate), provided, fallback)
            IN  IF IsSome(provided) THEN r = SelectorOk(Unwrap(provided))
                ELSE IF IsSome(fallback) THEN r = SelectorOk(Unwrap(fallback))
                ELSE ~r.ok
       /\ ResolveOutput(Unwrap(cstate), None) = ScreenshotPath("screenshot.png")
       /\ ResolveOutput(Unwrap(cstate), Some("given.png")) = ScreenshotPath("given.png")

\* C26: while refresh is requested (stale context or --refresh) cached
\* values are discarded: resolve_selector never returns the cached selector,
\* resolve_output never returns the cached output path, and the cached last
\* URL, the one the run loaded from the store, is never handed to a command
\* (checked before the run has applied a delta of its own).
RefreshDiscardsCached ==
    /\ RefreshDiscardsSelectorAndOutput
    /\ (IsSome(cstate) /\ RefreshRequested(Unwrap(cstate)) /\ clog.op = "none")
         => ExecCtxLastUrl(Unwrap(cstate)) = None

\* A context state with the last-used timestamp of its selected context set to used.
WithLastUsedAt(cs, used) ==
    IF IsNone(cs.selected) THEN cs
    ELSE [cs EXCEPT !.selected = Some([Unwrap(cs.selected) EXCEPT !.data.last_used_at = used])]

LastUsedAt(cs) == IF IsNone(cs.selected) THEN None ELSE Unwrap(cs.selected).data.last_used_at

\* C27 as stated: applying the same delta twice in succession leaves the
\* context state, with everything a later read or persist observes, as
\* applying it once left it.
DeltaIdempotent ==
    (IsSome(cstate) /\ clog.op = "apply_delta" /\ clog.repeat)
    => cstate = clog.pre

\* C27: applying the same delta twice in succession leaves the cached URL,
\* selector and output, and every other field of the context state, as
\* applying it once left them, except the last-used timestamp, which is
\* that of the second application.
DeltaIdempotentButTimestamp ==
    (IsSome(cstate) /\ clog.op = "apply_delta" /\ clog.repeat)
    => /\ WithLastUsedAt(Unwrap(cstate), LastUsedAt(Unwrap(clog.pre))) = Unwrap(clog.pre)
       /\ MutationsEnabled(Unwrap(cstate))
            => /\ IsSome(LastUsedAt(Unwrap(cstate)))
               /\ Unwrap(LastUsedAt(Unwrap(cstate))) >= Unwrap(LastUsedAt(Unwrap(clog.pre)))
               /\ Unwrap(LastUsedAt(Unwrap(cstate))) <= ctime

\* C27 witness: the same delta, with a URL, was applied twice and the
\* clock advanced between the two applications.
DeltaIdempotentButTimestampWitness ==
    /\ IsSome(cstate)
    /\ clog.op = "apply_delta"
    /\ clog.repeat
    /\ clog.arg = ContextDelta(Some("https://u1"), Some("#s1"), Some("o1.png"))
    /\ MutationsEnabled(Unwrap(cstate))
    /\ LastUsedAt(Unwrap(clog.pre)) = Some(0)
    /\ LastUsedAt(Unwrap(cstate)) = Some(SESSION_TIMEOUT_SECS)

\* The patterns of a list are pairwise different ignoring case.
NoCaseDuplicates(list) ==
    \A i, j \in 1..Len(list) : ToLowercase(list[i]) = ToLowercase(list[j]) => i = j

\* The protected lists of a file on disk.
ProtectedListsOf(content) ==
    { StoreLoad(content).contexts[n].protected_urls : n \in DOMAIN StoreLoad(content).contexts }

\* C28: the protected list never holds two patterns that are equal ignoring
\* case (in the selected context and in both files); add_protected(p) a
\* second time and remove_protected(p) a second time change nothing; after
\* add_protected(p) a pattern equal to p ignoring case is in the list and
\* after remove_protected(p) none is (the last two of runs whose mutations
\* are enabled: --no-save disables both operations, see C23).
ProtectedListIdempotent ==
    /\ \A list \in ProtectedListsOf(globalDisk) \cup ProtectedListsOf(projectDisk) :
         NoCaseDuplicates(list)
    /\ (IsSome(cstate) /\ IsSome(Unwrap(cstate).selected))
         => LET list == Unwrap(Unwrap(cstate).selected).data.protected_urls
                has(p) == \E k \in 1..Len(list) : ToLowercase(list[k]) = ToLowercase(p)
            IN  /\ NoCaseDuplicates(list)
                /\ (clog.op \in {"add_protected", "remove_protected"} /\ clog.repeat)
                     => cstate = clog.pre
                /\ (clog.op = "add_protected" /\ MutationsEnabled(Unwrap(cstate)))
                     => has(clog.arg)
                /\ (clog.op = "remove_protected" /\ MutationsEnabled(Unwrap(cstate)))
                     => ~has(clog.arg)

\* C28 witness: add_protected was called twice with the same pattern on a
\* list that already held that pattern in another case.
ProtectedListIdempotentWitness ==
    /\ IsSome(cstate)
    /\ MutationsEnabled(Unwrap(cstate))
    /\ clog.op = "add_protected"
    /\ clog.repeat
    /\ clog.arg = <<"A">>
    /\ Unwrap(Unwrap(cstate).selected).data.protected_urls = <<<<"A">>>>

(***************************************************************************)
(* C29: tabs switch and tabs close never bring to front or close a tab     *)
(* whose URL, at the moment of the action, matches a protected pattern     *)
(* (ignoring case), for a target given by index or by pattern, whatever    *)
(* the tabs navigate to while the command runs.                            *)
(*                                                                         *)
(* Does not hold: the URL is checked in find_page (and once more in        *)
(* close_tab), the action comes one or two awaits later, and a tab that    *)
(* navigates in between is acted on at its new URL.                        *)
(***************************************************************************)
TabsNeverActOnProtected ==
    IsSome(tact) => ~IsProtectedBy(Unwrap(tact).url, tpats)

(***************************************************************************)
(* C30: each persist rewrites a context-store file atomically: a load      *)
(* that reads the file at any point during a save sees either the          *)
(* complete previous contents or the complete new contents, never a        *)
(* partial or empty file.                                                  *)
(*                                                                         *)
(* Does not hold: save is fs::write on the file itself, which truncates    *)
(* it and then writes; a load in between reads an empty or partial file,   *)
(* which ContextStore::load turns into the default (empty) store.          *)
(***************************************************************************)
PersistIsAtomic ==
    (IsSome(sreader) /\ IsSome(Unwrap(sreader).save)) =>
        LET save == Unwrap(Unwrap(sreader).save)
        IN  Unwrap(sreader).content \in {save.previous, WholeFile(save.file)}

(***************************************************************************)
(* C31: after the spawn, launch probes /json/version at most 8 times,      *)
(* each probe after a sleep of 200 ms, and always returns, with exactly    *)
(* one of: the endpoint of the first probe that succeeded; an error with   *)
(* the exit status of the child, when try_wait reported the exit before    *)
(* any probe succeeded; or, after 8 failed probes with no exit reported,   *)
(* an error carrying the error of the last probe.                          *)
(***************************************************************************)
LaunchOutcome ==
    IsSome(launch) =>
        LET l == Unwrap(launch)
        IN  /\ l.probes <= max_attempts
            /\ l.pc = "probe" => (l.slept = PROBE_INTERVAL_MS /\ l.probes < max_attempts)
            /\ l.pc = "done" =>
                 LET r == Unwrap(kop.result)
                 IN  \/ /\ r.ok
                        /\ l.first_ok = Some(r.value)
                        /\ IsNone(l.seen_exit)
                     \/ /\ ~r.ok
                        /\ r.error.kind = "exited"
                        /\ l.seen_exit = Some(r.error.status)
                        /\ child = r.error.status
                        /\ IsNone(l.first_ok)
                     \/ /\ ~r.ok
                        /\ r.error.kind = "unavailable"
                        /\ l.probes = max_attempts
                        /\ IsNone(l.first_ok)
                        /\ IsNone(l.seen_exit)
                        /\ l.probe_error = Some(r.error.last_error)

DiscoverFindsUsableHost ==
    kop.op = "discover" =>
        LET usable == { i \in 1..Len(ProbeHosts) : kop.answers[i] = "usable" }
            r == Unwrap(kop.result)
        IN  IF usable = {} THEN ~r.ok
            ELSE /\ r.ok
                 /\ r.value = CdpVersionInfo(ProbeHosts[CHOOSE i \in usable : \A j \in usable : i <= j])

(***************************************************************************)
(* C33: connect --kill on a port where no host gives a usable              *)
(* /json/version response returns the no-op payload, not an error, and     *)
(* changes nothing: no process is sent a signal and the stored CDP         *)
(* endpoint is the one before the command.                                 *)
(***************************************************************************)
KillUnreachableIsNoop ==
    (/\ kop.op = "kill"
     /\ \A i \in 1..Len(ProbeHosts) : kop.answers[i] # "usable") =>
        /\ kop.result = Some(OkOf(None))
        /\ kop.signalled = {}
        /\ CdpEndpoint(kctx) = kop.before

\* Witness: a kill on a port nothing answers on, with an endpoint stored.
KillUnreachableIsNoopWitness ==
    /\ kop.op = "kill"
    /\ \A i \in 1..Len(ProbeHosts) : kop.answers[i] = "refused"
    /\ kop.before = Some("ws://old")
    /\ CdpEndpoint(kctx) = Some("ws://old")

(***************************************************************************)
(* C34: for any number of pending requests and any arrival order of the    *)
(* responses, a response is delivered to the pending request with its id   *)
(* and to no other, and a pending request is completed at most once, with  *)
(* the result or error of its own response.                                *)
(***************************************************************************)
ResponsesCorrelatedById ==
    \A c \in Callers :
        /\ completions[c] <= 1
        /\ IsSome(oneshot[c]) =>
             LET r == Unwrap(oneshot[c])
             IN  /\ completions[c] = 1
                 /\ (IF r.ok THEN r.value ELSE r.error) = c
                 /\ calls[c].id \notin DOMAIN callbacks
        /\ (calls[c].pc = "returned" /\ calls[c].id \in DOMAIN wire) =>
             calls[c].result = oneshot[c]

\* Witness: the later of two pending requests has returned with its own
\* result while the earlier one still waits.
ResponsesCorrelatedByIdWitness ==
    \E c1 \in Callers, c2 \in Callers :
        /\ calls[c1].pc = "await"
        /\ IsNone(oneshot[c1])
        /\ calls[c2].pc = "returned"
        /\ calls[c1].id < calls[c2].id
        /\ calls[c2].result = Some(OkOf(c2))

(***************************************************************************)
(* C35: every send_message call eventually returns, with the result or     *)
(* the error of the server, or with an error if the send fails or the      *)
(* connection is closed before its response arrives; no call stays         *)
(* pending for ever once the message loop has ended.                       *)
(*                                                                         *)
(* Does not hold: the sender of a pending call stays in callbacks when     *)
(* the message loop ends, so its receiver is never woken.                  *)
(***************************************************************************)
CallsEventuallyReturn ==
    \A c \in Callers :
        (mloop = "ended" /\ calls[c].pc # "idle") ~> (calls[c].pc = "returned")

(***************************************************************************)
(* C36: a Connection shared by several tasks takes several requests at     *)
(* once: while the message loop of run is active, the send_message calls   *)
(* of the tasks are all written to the transport, and the read loop never  *)
(* keeps a send waiting.                                                   *)
(*                                                                         *)
(* Does not hold: the transport task of run holds the transport mutex for  *)
(* as long as it reads, and send_message needs that mutex to write.        *)
(***************************************************************************)
ReadLoopNeverBlocksSend ==
    \A c \in Callers : ~(calls[c].pc = "lock" /\ tlock = "reader" /\ reader = "reading")

(***************************************************************************)
(* C37: every error code in a batch response, the response to a request    *)
(* that names an unknown command included, is one of the thirteen members  *)
(* of ErrorCode.                                                           *)
(*                                                                         *)
(* Does not hold: the response to an unknown command is built with the     *)
(* code UNKNOWN_COMMAND, which ErrorCode does not have.                    *)
(***************************************************************************)
ResponseCodesAreErrorCodes ==
    (IsSome(resp) /\ IsSome(Unwrap(resp).error)) => Unwrap(Unwrap(resp).error) \in ErrorCode

\* What does hold: the code of every response to a command the registry knows
\* and to a malformed line is a member of ErrorCode.
KnownCommandCodesAreErrorCodes ==
    (/\ IsSome(resp)
     /\ IsSome(Unwrap(resp).error)
     /\ IsSome(cur)
     /\ (Unwrap(cur).kind = "request" => IsSome(LookupCommand(Unwrap(cur).command)))) =>
        Unwrap(Unwrap(resp).error) \in ErrorCode

\* C38: when an invocation acquired a session and wrote the descriptor, and
\* the browser is still running when a later invocation of the same workspace
\* and namespace asks with the same request and no refresh, the later
\* acquisition is a reuse: source cached-descriptor at the endpoint the first
\* session had.  Stated for the requests whose strategy tries the descriptor
\* and for acquisitions that did not fail.
DescriptorReusedByLaterInvocation ==
    IsSome(rsecond) =>
        LET a1 == Unwrap(rfirst)
            a2 == Unwrap(rsecond)
        IN  ( /\ a1.handle.ok
              /\ a1.wrote
              /\ a2.browser_before = "running"
              /\ ~a2.manager.refresh
              /\ Strategy(a2.manager, a2.request).try_descriptor_reuse
              /\ a2.handle.ok )
            => /\ a2.handle.source = "CachedDescriptor"
               /\ a2.handle.endpoint = a1.handle.endpoint

\* The same, for a later invocation that starts while the first CLI process
\* is still alive.
DescriptorReusedWhileWriterAlive ==
    (IsSome(rsecond) /\ CliPid(1) \in rprocs) =>
        LET a1 == Unwrap(rfirst)
            a2 == Unwrap(rsecond)
        IN  ( /\ a1.handle.ok
              /\ a1.wrote
              /\ a2.browser_before = "running"
              /\ ~a2.manager.refresh
              /\ Strategy(a2.manager, a2.request).try_descriptor_reuse
              /\ a2.handle.ok )
            => /\ a2.handle.source = "CachedDescriptor"
               /\ a2.handle.endpoint = a1.handle.endpoint

\* C39: within one batch run, once a successful command has recorded a URL
\* through its context delta, the context state that every later request of
\* the run is dispatched with has that URL as its context URL:
\* has_context_url() is true and last_url is the recorded URL, whatever
\* state the run started from (fresh, stale, or with --refresh).
RecordedUrlIsContextUrl ==
    [][ ( /\ bpc = "dispatch"
          /\ IsSome(resp')
          /\ Unwrap(resp').ok
          /\ LastUrl(ctx_state') # LastUrl(ctx_state) )
        => /\ HasContextUrl(ctx_state')
           /\ IsSome(LastUrl(ctx_state')) ]_vars

\* The same for the runs that started without a requested refresh.
RecordedUrlIsContextUrlUnlessRefresh ==
    [][ ( /\ bpc = "dispatch"
          /\ IsSome(resp')
          /\ Unwrap(resp').ok
          /\ ~RefreshRequested(ctx_state)
          /\ LastUrl(ctx_state') # LastUrl(ctx_state) )
        => /\ HasContextUrl(ctx_state')
           /\ IsSome(LastUrl(ctx_state')) ]_vars

\* C40: a cookie file is written for a PushCookies message only if the same
\* connection has sent a Hello with the listener's token before: a
\* connection that sent no Hello, or only Hellos with another token, causes
\* no cookie file to be written, whatever the other connections send.
CookiesOnlyAfterOwnHello ==
    \A f \in CookieFiles :
        IsSome(auth_dir[f]) => sockets[Unwrap(auth_dir[f])].hello = "valid"

\* What the shared flag does give: a cookie file is written only after some
\* connection of this listener has sent a Hello with the listener's token.
CookiesOnlyAfterSomeHello ==
    (\E f \in CookieFiles : IsSome(auth_dir[f]))
        => /\ authenticated
           /\ \E c \in Sockets : sockets[c].hello = "valid"

====
